---- MODULE Spec2Model ----
(***************************************************************************)
(* Link-reliability layer of the RNS-Meshtastic gateway:                   *)
(*   CircuitBreaker       (src/src/utils/circuit_breaker.py)               *)
(*   TxQueue              (src/src/utils/tx_queue.py)                      *)
(*   ActiveHealthProbe    (src/src/utils/health_probe.py)                  *)
(*   BridgeHealthMonitor  (src/src/utils/bridge_health.py)                 *)
(*   ReconnectStrategy    (src/src/utils/reconnect.py)                     *)
(*   MeshtasticInterface  (src/src/Meshtastic_Interface.py), transmit path *)
(* Each component has its own specifications (SpecCB, SpecCC, SpecTQ,      *)
(* SpecTQF, SpecTQD, SpecHP, SpecHPQ, SpecHPC, SpecPL, SpecPLF, SpecBH,    *)
(* SpecBHE, SpecBHS, SpecRS, SpecRSD, SpecRL, SpecRW, SpecMI); the         *)
(* variables of the other components stay at their constructed values.     *)
(***************************************************************************)
EXTENDS Integers, Sequences, FiniteSets, TLC

\* ------------------------------------------------------------------------
\* Bounds of the model
\* ------------------------------------------------------------------------
MaxThreshold == 3      \* failure_threshold is drawn from 1..MaxThreshold
MaxTimeout == 2        \* recovery_timeout is drawn from 1..MaxTimeout (clock ticks)
MaxTime == 6           \* the monotonic clock runs from 0 to MaxTime
MaxFailures == 5       \* record_failure is cut off once _failures reaches this
MaxQueue == 2          \* TxQueue maxsize is drawn from 1..MaxQueue
MaxItems == 3          \* payloads offered to enqueue are numbered 1..MaxItems
MaxThreads == 2        \* drain threads that start() may create in one run
MaxHpThreshold == 3    \* the probe's fails and passes are drawn from 1..MaxHpThreshold
MaxChecks == 5         \* checks run on one service since its registration
MaxCallbacks == 2      \* register_callback calls made on one probe
MaxConnEvents == 4     \* record_connection_event calls made on one monitor
MaxWallTicks == 3      \* the wall clock advances this many times
MaxAttempt == 1030     \* max_attempts of the strategy whose delays are examined
MaxExplicit == 3       \* get_delay is given the attempt numbers 0..MaxExplicit, or none
MaxClock == 5          \* the strategy's monotonic clock runs from 1 to MaxClock
MaxRetries == 2        \* max_attempts is drawn from 0..MaxRetries
MaxSlowStart == 3      \* slow_start_duration is drawn from 0..MaxSlowStart (clock ticks)
MaxPackets == 6        \* packets handed to _do_send by one interface
MaxPending == 2        \* packets RNS leaves waiting in the interface's queue
MaxCalls == 2          \* calls each thread makes on the shared CircuitBreaker
MaxLoops == 2          \* probe-loop threads that start() may create in one run
MaxLoopChecks == 2     \* checks per service made while a probe loop is modelled
MaxLoopErrors == 1     \* unexpected failures of an iteration of one probe loop
MaxProbes == 2         \* allow_request() calls counted on one HALF_OPEN breaker
MaxOver == 1           \* record_failure is cut off once _attempts is this far beyond max_attempts

\* ------------------------------------------------------------------------
\* CircuitBreaker
\* ------------------------------------------------------------------------
CLOSED == "closed"
OPEN == "open"
HALF_OPEN == "half_open"
State == {CLOSED, OPEN, HALF_OPEN}

VARIABLES
    now,                 \* time.monotonic(), in ticks
    failure_threshold,   \* CircuitBreaker.failure_threshold
    recovery_timeout,    \* CircuitBreaker.recovery_timeout, in ticks
    cb_state,            \* CircuitBreaker._state (the stored field)
    cb_failures,         \* CircuitBreaker._failures
    cb_opened_at,        \* CircuitBreaker._opened_at
    cb_op,               \* the last mutating call made on the breaker
    cb_read,             \* the last read made since that call ("none", "state", "allow_request")
    cb_ret,              \* the state that read returned ("none" when there was none)
    cb_allow,            \* that allow_request()'s result: "True", "False" ("none" when there was none)
    cb_run,              \* history: record_failure calls since construction/record_success/reset
    cb_pre,              \* history: what the breaker read just before the last mutating call
    cb_pre_failures,     \* history: _failures just before the last mutating call
    cb_call_t,           \* history: clock value at the last mutating call
    cb_tripped,          \* history: the last mutating call took the stored state from not-OPEN to OPEN
    cb_probes            \* history: allow_request() calls that returned True on a HALF_OPEN breaker since the last mutating call (counted up to MaxProbes)

cbvars == <<now, failure_threshold, recovery_timeout, cb_state, cb_failures,
            cb_opened_at, cb_op, cb_read, cb_ret, cb_allow, cb_run, cb_pre,
            cb_pre_failures, cb_call_t, cb_tripped, cb_probes>>

\* ------------------------------------------------------------------------
\* State of the TxQueue and of the ActiveHealthProbe
\* ------------------------------------------------------------------------
VARIABLES
    tq_maxsize,          \* TxQueue: maxsize of _queue
    tq_delay_fn,         \* TxQueue._delay_fn is set (TRUE) or None (FALSE)
    tq_queue,            \* TxQueue._queue, head first
    tq_dropped,          \* TxQueue._dropped
    tq_stop,             \* TxQueue._stop (the Event is set)
    tq_thread,           \* TxQueue._thread: 0 for None, else the thread's number
    tq_created,          \* number of drain threads created so far
    tq_pc,               \* per drain thread: where it is in _drain
    tq_data,             \* per drain thread: the local `data` (0 when it holds none)
    tq_ctl,              \* the caller of start()/stop(): "idle", or "join" inside stop()
    tq_next,             \* the payload the next enqueue() call offers
    tq_ret,              \* what the last enqueue() returned: "True", "False" ("none" before any)
    tq_accepted,         \* history: payloads for which enqueue() returned True, in order
    tq_sent,             \* history: payloads handed to send_fn, in order
    tq_raised            \* history: payloads for which send_fn raised

tqvars == <<tq_maxsize, tq_delay_fn, tq_queue, tq_dropped, tq_stop, tq_thread,
            tq_created, tq_pc, tq_data, tq_ctl, tq_next, tq_ret, tq_accepted,
            tq_sent, tq_raised>>

VARIABLES
    hp_fails,            \* ActiveHealthProbe.fails
    hp_passes,           \* ActiveHealthProbe.passes
    hp_checks,           \* keys of _checks and _states: the registered services
    hp_state,            \* per service: ServiceHealthState.state
    hp_cpasses,          \* per service: consecutive_passes
    hp_cfails,           \* per service: consecutive_fails
    hp_total_checks,     \* per service: total_checks
    hp_total_passes,     \* per service: total_passes
    hp_total_fails,      \* per service: total_fails
    hp_result,           \* what the last _run_check returned (NoResult before any)
    hp_hist,             \* history, per service: healthy flags of its checks since registration
    hp_query,            \* the last is_healthy call and what it returned (NoQuery once the probe changed)
    hp_callbacks,        \* _callbacks: per event, the callables in registration order
    hp_cb_calls,         \* history: register_callback calls so far; the k-th call passes callable k
    hp_fired             \* history: the callback invocations made by the last _run_check, in order

hpvars == <<hp_fails, hp_passes, hp_checks, hp_state, hp_cpasses, hp_cfails,
            hp_total_checks, hp_total_passes, hp_total_fails, hp_result, hp_hist,
            hp_query, hp_callbacks, hp_cb_calls, hp_fired>>

\* BridgeHealthMonitor (src/utils/bridge_health.py)
VARIABLES
    bh_now,              \* time.time(), in seconds
    bh_start_time,       \* _start_time
    bh_connected,        \* _connected: service -> bool
    bh_last_connected,   \* _last_connected: service -> timestamp
    bh_last_disconnected,\* _last_disconnected: service -> timestamp
    bh_connection_count, \* _connection_count: service -> int
    bh_uptime_seconds,   \* _uptime_seconds: service -> seconds
    bh_connection_events,\* _connection_events: how many events the deque holds (nothing reads them)
    bh_error_events,     \* _error_events: the ErrorEvents, oldest first
    bh_error,            \* the exception the links of this run raise
    bh_ret,              \* the last call that returned a value, and the value
    bh_event,            \* history: the last ConnectionEvent recorded
    bh_h_conn,           \* history: per service, its last 'connected', 'disconnected' or 'error' event
    bh_h_errors          \* history: the times of all record_error calls

bhvars == <<bh_now, bh_start_time, bh_connected, bh_last_connected,
            bh_last_disconnected, bh_connection_count, bh_uptime_seconds,
            bh_connection_events, bh_error_events, bh_error, bh_ret, bh_event,
            bh_h_conn, bh_h_errors>>

\* Threads calling into one CircuitBreaker (src/utils/circuit_breaker.py)
VARIABLES
    cc_lock,             \* CircuitBreaker._lock: the thread holding it, or "none"
    cc_pc,               \* per thread: where it is in its call
    cc_op,               \* per thread: the call it is making or made last
    cc_tmp,              \* per thread: the _failures value loaded by `self._failures += 1`
    cc_calls,            \* per thread: calls made so far
    cc_ret,              \* per thread: what its last `state` read returned
    cc_h_count,          \* history: record_failure calls completed since the last completed record_success/reset
    cc_h_mixed           \* history: some call other than record_failure was made

ccvars == <<cc_lock, cc_pc, cc_op, cc_tmp, cc_calls, cc_ret, cc_h_count,
            cc_h_mixed>>

\* MeshtasticInterface (src/Meshtastic_Interface.py), the transmit path
VARIABLES
    mi_online,           \* self.online (and self.interface is set)
    mi_use_cb,           \* features["circuit_breaker"]: self._circuit_breaker is set
    mi_use_queue,        \* features["tx_queue"]: self._tx_queue is set
    mi_txb,              \* self.txb
    mi_tx_packets,       \* self.tx_packets
    mi_tx_errors,        \* self.tx_errors
    mi_radio,            \* history: calls of self.interface.sendData
    mi_last              \* the last process_incoming call: what the breaker read, and the state it found

mivars == <<mi_online, mi_use_cb, mi_use_queue, mi_txb, mi_tx_packets,
            mi_tx_errors, mi_radio, mi_last>>

\* ReconnectStrategy (src/utils/reconnect.py); delays are in milliseconds
VARIABLES
    rs_initial_delay,    \* initial_delay
    rs_max_delay,        \* max_delay
    rs_multiplier,       \* multiplier
    rs_jitter,           \* jitter, in percent
    rs_attempts,         \* _attempts
    rs_ret,              \* the last get_delay call: its attempt, its jitter draw and its outcome
    rs_max_attempts,     \* max_attempts
    rs_slow_start_duration, \* slow_start_duration, in clock ticks
    rs_recovery_start,   \* _recovery_start (0 when no slow-start window is active)
    rs_clock,            \* time.monotonic(), in ticks
    rs_factor,           \* the last throughput_factor() call and its result, in thousandths
    rs_h_failures,       \* history: record_failure calls since the last record_success/reset
    rs_h_recovered,      \* history: clock of the last recovering record_success not followed by reset (0: none)
    rs_last,             \* the last call made on the strategy and what it found
    rs_stop_event,       \* the threading.Event handed to wait(): its flag
    rs_wait,             \* the wait() call in progress or last returned
    rl_pc,               \* position of the documented reconnect loop
    rl_failed            \* history: failed connection attempts of the current run of the loop

\* The fields get_delay works on.
rsdelay == <<rs_initial_delay, rs_max_delay, rs_multiplier, rs_jitter>>
\* The slow-start state.
rsslow == <<rs_max_attempts, rs_slow_start_duration, rs_recovery_start,
            rs_clock, rs_factor, rs_h_recovered>>
\* The cancellable wait.
rswait == <<rs_stop_event, rs_wait>>
\* The reconnect loop.
rsloop == <<rl_pc, rl_failed>>

rsvars == <<rsdelay, rs_attempts, rs_ret, rs_h_failures, rs_last,
            rsslow, rswait, rsloop>>

\* ActiveHealthProbe, the background loop (src/utils/health_probe.py)
VARIABLES
    pl_stop_event,       \* ActiveHealthProbe._stop_event (the Event is set)
    pl_thread,           \* ActiveHealthProbe._thread: 0 for None, else the thread's number
    pl_created,          \* number of probe-loop threads created so far
    pl_ctl,              \* the caller of start()/stop(): "idle", or "join" inside stop()
    pl_keys,             \* list(_checks.keys()): the registered services in insertion order
    pl_pc,               \* per loop thread: where it is in _probe_loop
    pl_services,         \* per loop thread: the local `services`
    pl_idx,              \* per loop thread: how many items of `services` the for loop has taken
    pl_loop_errors,      \* per loop thread: the local `loop_errors`
    pl_app,              \* the application's check_now: "idle", or the service whose check_fn it is in
    pl_h_started,        \* history: start() has returned and stop() was not called since
    pl_h_cycle           \* history, per loop thread: the services checked in the current cycle

plctl == <<pl_stop_event, pl_thread, pl_created, pl_ctl, pl_h_started>>
plloop == <<pl_pc, pl_services, pl_idx, pl_loop_errors, pl_h_cycle>>
plvars == <<plctl, pl_keys, plloop, pl_app>>

vars == <<cbvars, tqvars, hpvars, bhvars, rsvars, ccvars, mivars, plvars>>

\* What the actions of one component leave alone.
othersCB == <<tqvars, hpvars, bhvars, rsvars, ccvars, mivars, plvars>>
othersTQ == <<cbvars, hpvars, bhvars, rsvars, ccvars, mivars, plvars>>
othersHP == <<cbvars, tqvars, bhvars, rsvars, ccvars, mivars, plvars>>
othersBH == <<cbvars, tqvars, hpvars, rsvars, ccvars, mivars, plvars>>
othersRS == <<cbvars, tqvars, hpvars, bhvars, ccvars, mivars, plvars>>
othersCC == <<tqvars, hpvars, bhvars, rsvars, mivars, plvars>>
othersMI == <<hpvars, bhvars, rsvars, ccvars, plvars>>
othersPL == <<cbvars, tqvars, bhvars, rsvars, ccvars, mivars>>

\* The threads that share the breaker: the drain thread of the TxQueue, which
\* records the outcome of every send, and the thread that reads the state
\* before handing over a packet and resets the breaker on reconnect.
CbThreads == {"drain", "transport"}

\* No process_incoming call yet.
NoIncoming == [read |-> "no call", cb_state |-> CLOSED, cb_failures |-> 0,
               cb_opened_at |-> 0, queue |-> <<>>, dropped |-> 0, radio |-> 0,
               txb |-> 0, tx_packets |-> 0, tx_errors |-> 0]

\* MeshtasticInterface.__init__ up to the connection, with the default
\* features.
FreshMI ==
    /\ mi_txb = 0
    /\ mi_tx_packets = 0
    /\ mi_tx_errors = 0
    /\ mi_radio = 0
    /\ mi_last = NoIncoming

\* An interface nobody uses (the other specifications).
IdleMI ==
    /\ mi_online = FALSE
    /\ mi_use_cb = TRUE
    /\ mi_use_queue = TRUE
    /\ FreshMI

\* The threads start() creates for _probe_loop.
PlThreads == 1..MaxLoops

\* ActiveHealthProbe.__init__: no loop thread, the event clear; nothing is
\* registered and no check_now is running.
IdlePL ==
    /\ pl_stop_event = FALSE
    /\ pl_thread = 0
    /\ pl_created = 0
    /\ pl_ctl = "idle"
    /\ pl_keys = <<>>
    /\ pl_pc = [w \in PlThreads |-> "none"]
    /\ pl_services = [w \in PlThreads |-> <<>>]
    /\ pl_idx = [w \in PlThreads |-> 0]
    /\ pl_loop_errors = [w \in PlThreads |-> 0]
    /\ pl_app = "idle"
    /\ pl_h_started = FALSE
    /\ pl_h_cycle = [w \in PlThreads |-> <<>>]

\* No thread is in a call.
IdleCC ==
    /\ cc_lock = "none"
    /\ cc_pc = [t \in CbThreads |-> "idle"]
    /\ cc_op = [t \in CbThreads |-> "none"]
    /\ cc_tmp = [t \in CbThreads |-> 0]
    /\ cc_calls = [t \in CbThreads |-> 0]
    /\ cc_ret = [t \in CbThreads |-> "none"]
    /\ cc_h_count = 0
    /\ cc_h_mixed = FALSE

\* The `state` property: an OPEN breaker whose recovery timeout has elapsed
\* is read (and stored) as HALF_OPEN; anything else is returned as stored.
StateRead_late(st, opened, t) ==
    IF st = OPEN /\ t - opened > recovery_timeout THEN HALF_OPEN ELSE st

StateRead(st, opened, t) ==
    IF st = OPEN /\ t - opened >= recovery_timeout THEN HALF_OPEN ELSE st

\* allow_request() that lets every request through.
AllowOf_always(st) == st \in {CLOSED, HALF_OPEN, OPEN}

\* allow_request(): true iff the state read is CLOSED or HALF_OPEN.
AllowOf(st) == st \in {CLOSED, HALF_OPEN}

\* record_failure(): the stored state after the call, given the incremented count.
FailureState_gt(st, n) ==
    IF st = HALF_OPEN THEN OPEN
    ELSE IF n > failure_threshold THEN OPEN
    ELSE st

FailureState(st, n) ==
    IF st = HALF_OPEN THEN OPEN
    ELSE IF n >= failure_threshold THEN OPEN
    ELSE st

\* record_failure(): _opened_at after the call.
FailureOpenedAt_nostamp(st, n, opened, t) ==
    IF st = HALF_OPEN THEN opened
    ELSE IF n >= failure_threshold THEN t
    ELSE opened

FailureOpenedAt(st, n, opened, t) ==
    IF st = HALF_OPEN THEN t
    ELSE IF n >= failure_threshold THEN t
    ELSE opened

InitCB ==
    /\ now = 0
    /\ failure_threshold \in 1..MaxThreshold
    /\ recovery_timeout \in 1..MaxTimeout
    /\ cb_state = CLOSED
    /\ cb_failures = 0
    /\ cb_opened_at = 0
    /\ cb_op = "init"
    /\ cb_read = "none"
    /\ cb_ret = "none"
    /\ cb_allow = "none"
    /\ cb_run = 0
    /\ cb_pre = CLOSED
    /\ cb_pre_failures = 0
    /\ cb_call_t = 0
    /\ cb_tripped = FALSE
    /\ cb_probes = 0
    /\ IdleCC
    /\ IdleMI

\* A breaker nobody uses (the other specifications).
IdleCB ==
    /\ now = 0
    /\ failure_threshold = 1
    /\ recovery_timeout = 1
    /\ cb_state = CLOSED
    /\ cb_failures = 0
    /\ cb_opened_at = 0
    /\ cb_op = "init"
    /\ cb_read = "none"
    /\ cb_ret = "none"
    /\ cb_allow = "none"
    /\ cb_run = 0
    /\ cb_pre = CLOSED
    /\ cb_pre_failures = 0
    /\ cb_call_t = 0
    /\ cb_tripped = FALSE
    /\ cb_probes = 0
    /\ IdleCC
    /\ IdleMI

\* Time passes.
Tick ==
    /\ now < MaxTime
    /\ now' = now + 1
    /\ UNCHANGED <<failure_threshold, recovery_timeout, cb_state, cb_failures,
                   cb_opened_at, cb_op, cb_read, cb_ret, cb_allow, cb_run,
                   cb_pre, cb_pre_failures, cb_call_t, cb_tripped, cb_probes>>
    /\ UNCHANGED othersCB

\* cb.state
CB_state ==
    /\ cb_state' = StateRead(cb_state, cb_opened_at, now)
    /\ cb_ret' = cb_state'
    /\ cb_allow' = "none"
    /\ cb_read' = "state"
    /\ UNCHANGED <<now, failure_threshold, recovery_timeout, cb_failures,
                   cb_opened_at, cb_op, cb_run, cb_pre, cb_pre_failures,
                   cb_call_t, cb_tripped, cb_probes>>
    /\ UNCHANGED othersCB

\* cb.allow_request()
CB_allow_request ==
    /\ cb_state' = StateRead(cb_state, cb_opened_at, now)
    /\ cb_ret' = cb_state'
    /\ cb_allow' = IF AllowOf(cb_state') THEN "True" ELSE "False"
    /\ cb_read' = "allow_request"
    /\ cb_probes' = IF cb_state' = HALF_OPEN /\ AllowOf(cb_state') /\ cb_probes < MaxProbes
                    THEN cb_probes + 1 ELSE cb_probes
    /\ UNCHANGED <<now, failure_threshold, recovery_timeout, cb_failures,
                   cb_opened_at, cb_op, cb_run, cb_pre, cb_pre_failures,
                   cb_call_t, cb_tripped>>
    /\ UNCHANGED othersCB

\* What every mutating call records for the properties.
CB_history(op) ==
    /\ cb_op' = op
    /\ cb_read' = "none"
    /\ cb_ret' = "none"
    /\ cb_allow' = "none"
    /\ cb_pre' = StateRead(cb_state, cb_opened_at, now)
    /\ cb_pre_failures' = cb_failures
    /\ cb_call_t' = now
    /\ cb_probes' = 0

\* cb.record_success()
CB_record_success_keep ==
    /\ cb_failures' = cb_failures
    /\ cb_state' = CLOSED
    /\ CB_history("record_success")
    /\ cb_run' = 0
    /\ cb_tripped' = FALSE
    /\ UNCHANGED <<now, failure_threshold, recovery_timeout, cb_opened_at>>
    /\ UNCHANGED othersCB

CB_record_success ==
    /\ cb_failures' = 0
    /\ cb_state' = CLOSED
    /\ CB_history("record_success")
    /\ cb_run' = 0
    /\ cb_tripped' = FALSE
    /\ UNCHANGED <<now, failure_threshold, recovery_timeout, cb_opened_at>>
    /\ UNCHANGED othersCB

\* cb.record_failure()
CB_record_failure ==
    /\ cb_failures < MaxFailures
    /\ cb_failures' = cb_failures + 1
    /\ cb_state' = FailureState(cb_state, cb_failures + 1)
    /\ cb_opened_at' = FailureOpenedAt(cb_state, cb_failures + 1, cb_opened_at, now)
    /\ CB_history("record_failure")
    /\ cb_run' = cb_run + 1
    /\ cb_tripped' = (cb_state # OPEN /\ cb_state' = OPEN)
    /\ UNCHANGED <<now, failure_threshold, recovery_timeout>>
    /\ UNCHANGED othersCB

\* cb.reset()
CB_reset ==
    /\ cb_failures' = 0
    /\ cb_state' = CLOSED
    /\ cb_opened_at' = 0
    /\ CB_history("reset")
    /\ cb_run' = 0
    /\ cb_tripped' = FALSE
    /\ UNCHANGED <<now, failure_threshold, recovery_timeout>>
    /\ UNCHANGED othersCB

\* ------------------------------------------------------------------------
\* CircuitBreaker called from several threads, one statement at a time
\* ------------------------------------------------------------------------

\* What the properties of the single-caller breaker record.
cbhist == <<cb_op, cb_read, cb_ret, cb_allow, cb_run, cb_pre, cb_pre_failures,
            cb_call_t, cb_tripped, cb_probes>>

\* The calls a thread makes.
CbCalls == {"record_failure", "record_success", "reset", "state"}

\* The first statement inside `with self._lock:` of each call.
FirstStatement(op) ==
    IF op = "record_failure" THEN "load"
    ELSE IF op = "state" THEN "read"
    ELSE "zero"

\* A breaker whose methods do not take the lock.
LockFree_nolock(holder) == TRUE

\* threading.Lock.acquire succeeds only while no thread holds the lock.
LockFree(holder) == holder = "none"

\* A thread calls one of the methods.
CC_call(t, op) ==
    /\ cc_pc[t] = "idle"
    /\ cc_calls[t] < MaxCalls
    /\ cc_pc' = [cc_pc EXCEPT ![t] = "acquire"]
    /\ cc_op' = [cc_op EXCEPT ![t] = op]
    /\ cc_calls' = [cc_calls EXCEPT ![t] = @ + 1]
    /\ cc_ret' = [cc_ret EXCEPT ![t] = "none"]
    /\ cc_h_mixed' = (cc_h_mixed \/ op # "record_failure")
    /\ UNCHANGED <<cc_lock, cc_tmp, cc_h_count>>
    /\ UNCHANGED <<now, failure_threshold, recovery_timeout, cb_state,
                   cb_failures, cb_opened_at, cbhist>>
    /\ UNCHANGED othersCC

\* with self._lock:   (entering)
CC_acquire(t) ==
    /\ cc_pc[t] = "acquire"
    /\ LockFree(cc_lock)
    /\ cc_lock' = t
    /\ cc_pc' = [cc_pc EXCEPT ![t] = FirstStatement(cc_op[t])]
    /\ UNCHANGED <<cc_op, cc_tmp, cc_calls, cc_ret, cc_h_count, cc_h_mixed>>
    /\ UNCHANGED <<now, failure_threshold, recovery_timeout, cb_state,
                   cb_failures, cb_opened_at, cbhist>>
    /\ UNCHANGED othersCC

\* self._failures += 1   (the load)
CC_load(t) ==
    /\ cc_pc[t] = "load"
    /\ cc_tmp' = [cc_tmp EXCEPT ![t] = cb_failures]
    /\ cc_pc' = [cc_pc EXCEPT ![t] = "store"]
    /\ UNCHANGED <<cc_lock, cc_op, cc_calls, cc_ret, cc_h_count, cc_h_mixed>>
    /\ UNCHANGED <<now, failure_threshold, recovery_timeout, cb_state,
                   cb_failures, cb_opened_at, cbhist>>
    /\ UNCHANGED othersCC

\* self._failures += 1   (the store)
CC_store(t) ==
    /\ cc_pc[t] = "store"
    /\ cb_failures' = cc_tmp[t] + 1
    /\ cc_pc' = [cc_pc EXCEPT ![t] = "trip"]
    /\ UNCHANGED <<cc_lock, cc_op, cc_tmp, cc_calls, cc_ret, cc_h_count,
                   cc_h_mixed>>
    /\ UNCHANGED <<now, failure_threshold, recovery_timeout, cb_state,
                   cb_opened_at, cbhist>>
    /\ UNCHANGED othersCC

\* if self._state is State.HALF_OPEN: ... elif self._failures >= threshold: ...
CC_trip(t) ==
    /\ cc_pc[t] = "trip"
    /\ cb_state' = FailureState(cb_state, cb_failures)
    /\ cb_opened_at' = FailureOpenedAt(cb_state, cb_failures, cb_opened_at, now)
    /\ cc_pc' = [cc_pc EXCEPT ![t] = "release"]
    /\ UNCHANGED <<cc_lock, cc_op, cc_tmp, cc_calls, cc_ret, cc_h_count,
                   cc_h_mixed>>
    /\ UNCHANGED <<now, failure_threshold, recovery_timeout, cb_failures,
                   cbhist>>
    /\ UNCHANGED othersCC

\* self._failures = 0   (record_success and reset)
CC_zero(t) ==
    /\ cc_pc[t] = "zero"
    /\ cb_failures' = 0
    /\ cc_pc' = [cc_pc EXCEPT ![t] = "close"]
    /\ UNCHANGED <<cc_lock, cc_op, cc_tmp, cc_calls, cc_ret, cc_h_count,
                   cc_h_mixed>>
    /\ UNCHANGED <<now, failure_threshold, recovery_timeout, cb_state,
                   cb_opened_at, cbhist>>
    /\ UNCHANGED othersCC

\* self._state = State.CLOSED   (record_success and reset)
CC_close(t) ==
    /\ cc_pc[t] = "close"
    /\ cb_state' = CLOSED
    /\ cc_pc' = [cc_pc EXCEPT ![t] =
                    IF cc_op[t] = "reset" THEN "unstamp" ELSE "release"]
    /\ UNCHANGED <<cc_lock, cc_op, cc_tmp, cc_calls, cc_ret, cc_h_count,
                   cc_h_mixed>>
    /\ UNCHANGED <<now, failure_threshold, recovery_timeout, cb_failures,
                   cb_opened_at, cbhist>>
    /\ UNCHANGED othersCC

\* self._opened_at = 0.0   (reset)
CC_unstamp(t) ==
    /\ cc_pc[t] = "unstamp"
    /\ cb_opened_at' = 0
    /\ cc_pc' = [cc_pc EXCEPT ![t] = "release"]
    /\ UNCHANGED <<cc_lock, cc_op, cc_tmp, cc_calls, cc_ret, cc_h_count,
                   cc_h_mixed>>
    /\ UNCHANGED <<now, failure_threshold, recovery_timeout, cb_state,
                   cb_failures, cbhist>>
    /\ UNCHANGED othersCC

\* The body of the `state` property.
CC_read(t) ==
    /\ cc_pc[t] = "read"
    /\ cb_state' = StateRead(cb_state, cb_opened_at, now)
    /\ cc_ret' = [cc_ret EXCEPT ![t] = cb_state']
    /\ cc_pc' = [cc_pc EXCEPT ![t] = "release"]
    /\ UNCHANGED <<cc_lock, cc_op, cc_tmp, cc_calls, cc_h_count, cc_h_mixed>>
    /\ UNCHANGED <<now, failure_threshold, recovery_timeout, cb_failures,
                   cb_opened_at, cbhist>>
    /\ UNCHANGED othersCC

\* Leaving `with self._lock:`; the call returns.
CC_release(t) ==
    /\ cc_pc[t] = "release"
    /\ cc_lock' = "none"
    /\ cc_pc' = [cc_pc EXCEPT ![t] = "idle"]
    /\ cc_h_count' = IF cc_op[t] = "record_failure" THEN cc_h_count + 1
                      ELSE IF cc_op[t] = "state" THEN cc_h_count
                      ELSE 0
    /\ UNCHANGED <<cc_op, cc_tmp, cc_calls, cc_ret, cc_h_mixed>>
    /\ UNCHANGED <<now, failure_threshold, recovery_timeout, cb_state,
                   cb_failures, cb_opened_at, cbhist>>
    /\ UNCHANGED othersCC

\* ------------------------------------------------------------------------
\* TxQueue
\* ------------------------------------------------------------------------
Threads == 1..MaxThreads

\* Thread.is_alive(): the thread was started and _drain has not returned or died.
IsAlive(w) == tq_pc[w] \notin {"none", "done", "crashed"}

\* queue.Queue.put_nowait raises Full when maxsize items are queued.
QueueFull_late(q) == Len(q) > tq_maxsize

QueueFull(q) == Len(q) >= tq_maxsize

\* Where _drain continues after send_fn returned ("ok") or raised ("raise"):
\* the except clause swallows the exception and the loop goes on.
AfterSend_uncaught(outcome) == IF outcome = "raise" THEN "crashed" ELSE "loop"

AfterSend(outcome) == "loop"

InitTQ ==
    /\ tq_maxsize \in 1..MaxQueue
    /\ tq_delay_fn \in BOOLEAN
    /\ tq_queue = <<>>
    /\ tq_dropped = 0
    /\ tq_stop = FALSE
    /\ tq_thread = 0
    /\ tq_created = 0
    /\ tq_pc = [w \in Threads |-> "none"]
    /\ tq_data = [w \in Threads |-> 0]
    /\ tq_ctl = "idle"
    /\ tq_next = 1
    /\ tq_ret = "none"
    /\ tq_accepted = <<>>
    /\ tq_sent = <<>>
    /\ tq_raised = {}

\* A queue nobody uses (the other specifications).
IdleTQ ==
    /\ tq_maxsize = 1
    /\ tq_delay_fn = FALSE
    /\ tq_queue = <<>>
    /\ tq_dropped = 0
    /\ tq_stop = FALSE
    /\ tq_thread = 0
    /\ tq_created = 0
    /\ tq_pc = [w \in Threads |-> "none"]
    /\ tq_data = [w \in Threads |-> 0]
    /\ tq_ctl = "idle"
    /\ tq_next = 1
    /\ tq_ret = "none"
    /\ tq_accepted = <<>>
    /\ tq_sent = <<>>
    /\ tq_raised = {}

\* start(): nothing when _thread is alive; otherwise clear _stop and start a
\* new drain thread.
TQ_start ==
    /\ tq_ctl = "idle"
    /\ IF tq_thread # 0 /\ IsAlive(tq_thread)
       THEN UNCHANGED <<tq_stop, tq_thread, tq_created, tq_pc>>
       ELSE /\ tq_created < MaxThreads
            /\ tq_stop' = FALSE
            /\ tq_created' = tq_created + 1
            /\ tq_thread' = tq_created + 1
            /\ tq_pc' = [tq_pc EXCEPT ![tq_created + 1] = "loop"]
    /\ UNCHANGED <<tq_maxsize, tq_delay_fn, tq_queue, tq_dropped, tq_data,
                   tq_ctl, tq_next, tq_ret, tq_accepted, tq_sent, tq_raised>>
    /\ UNCHANGED othersTQ

\* stop(timeout), up to the join: set _stop; with a thread, wait for it.
TQ_stop ==
    /\ tq_ctl = "idle"
    /\ tq_stop' = TRUE
    /\ tq_ctl' = IF tq_thread # 0 THEN "join" ELSE "idle"
    /\ UNCHANGED <<tq_maxsize, tq_delay_fn, tq_queue, tq_dropped, tq_thread,
                   tq_created, tq_pc, tq_data, tq_next, tq_ret, tq_accepted,
                   tq_sent, tq_raised>>
    /\ UNCHANGED othersTQ

\* stop(timeout), the join returns - because the thread ended or because the
\* timeout expired with the thread still alive - and _thread becomes None.
TQ_stop_join ==
    /\ tq_ctl = "join"
    /\ tq_thread' = 0
    /\ tq_ctl' = "idle"
    /\ UNCHANGED <<tq_maxsize, tq_delay_fn, tq_queue, tq_dropped, tq_stop,
                   tq_created, tq_pc, tq_data, tq_next, tq_ret, tq_accepted,
                   tq_sent, tq_raised>>
    /\ UNCHANGED othersTQ

\* enqueue(data): put_nowait, or count the drop when the queue is full.
TQ_enqueue ==
    /\ tq_next <= MaxItems
    /\ IF QueueFull(tq_queue)
       THEN /\ tq_dropped' = tq_dropped + 1
            /\ tq_ret' = "False"
            /\ UNCHANGED <<tq_queue, tq_accepted>>
       ELSE /\ tq_queue' = Append(tq_queue, tq_next)
            /\ tq_accepted' = Append(tq_accepted, tq_next)
            /\ tq_ret' = "True"
            /\ UNCHANGED tq_dropped
    /\ tq_next' = tq_next + 1
    /\ UNCHANGED <<tq_maxsize, tq_delay_fn, tq_stop, tq_thread, tq_created,
                   tq_pc, tq_data, tq_ctl, tq_sent, tq_raised>>
    /\ UNCHANGED othersTQ

\* _drain: `while not self._stop.is_set()`.
TQ_drain_loop(w) ==
    /\ tq_pc[w] = "loop"
    /\ tq_pc' = [tq_pc EXCEPT ![w] = IF tq_stop THEN "done" ELSE "get"]
    /\ UNCHANGED <<tq_maxsize, tq_delay_fn, tq_queue, tq_dropped, tq_stop,
                   tq_thread, tq_created, tq_data, tq_ctl, tq_next, tq_ret,
                   tq_accepted, tq_sent, tq_raised>>
    /\ UNCHANGED othersTQ

\* _drain: `data = self._queue.get(timeout=0.5)`; Empty goes round the loop.
TQ_drain_get_drop(w) ==
    /\ tq_pc[w] = "get"
    /\ IF tq_queue # <<>>
       THEN /\ tq_data' = [tq_data EXCEPT ![w] = Head(tq_queue)]
            /\ tq_queue' = Tail(tq_queue)
            /\ tq_pc' = [tq_pc EXCEPT ![w] = "loop"]
       ELSE /\ tq_pc' = [tq_pc EXCEPT ![w] = "loop"]
            /\ UNCHANGED <<tq_data, tq_queue>>
    /\ UNCHANGED <<tq_maxsize, tq_delay_fn, tq_dropped, tq_stop, tq_thread,
                   tq_created, tq_ctl, tq_next, tq_ret, tq_accepted, tq_sent,
                   tq_raised>>
    /\ UNCHANGED othersTQ

TQ_drain_get(w) ==
    /\ tq_pc[w] = "get"
    /\ IF tq_queue # <<>>
       THEN /\ tq_data' = [tq_data EXCEPT ![w] = Head(tq_queue)]
            /\ tq_queue' = Tail(tq_queue)
            /\ tq_pc' = [tq_pc EXCEPT ![w] = IF tq_delay_fn THEN "delay" ELSE "send"]
       ELSE /\ tq_pc' = [tq_pc EXCEPT ![w] = "loop"]
            /\ UNCHANGED <<tq_data, tq_queue>>
    /\ UNCHANGED <<tq_maxsize, tq_delay_fn, tq_dropped, tq_stop, tq_thread,
                   tq_created, tq_ctl, tq_next, tq_ret, tq_accepted, tq_sent,
                   tq_raised>>
    /\ UNCHANGED othersTQ

\* _drain: `delay = self._delay_fn()` and the sleep; the call is outside any
\* try block, so an exception of the delay function ends the thread.
TQ_drain_delay(w) ==
    /\ tq_pc[w] = "delay"
    /\ \E outcome \in {"ok", "raise"} :
          IF outcome = "ok"
          THEN /\ tq_pc' = [tq_pc EXCEPT ![w] = "send"]
               /\ UNCHANGED tq_data
          ELSE /\ tq_pc' = [tq_pc EXCEPT ![w] = "crashed"]
               /\ tq_data' = [tq_data EXCEPT ![w] = 0]
    /\ UNCHANGED <<tq_maxsize, tq_delay_fn, tq_queue, tq_dropped, tq_stop,
                   tq_thread, tq_created, tq_ctl, tq_next, tq_ret, tq_accepted,
                   tq_sent, tq_raised>>
    /\ UNCHANGED othersTQ

\* _drain: `self._send_fn(data)` is called.
TQ_drain_send(w) ==
    /\ tq_pc[w] = "send"
    /\ tq_sent' = Append(tq_sent, tq_data[w])
    /\ tq_pc' = [tq_pc EXCEPT ![w] = "in_send"]
    /\ UNCHANGED <<tq_maxsize, tq_delay_fn, tq_queue, tq_dropped, tq_stop,
                   tq_thread, tq_created, tq_data, tq_ctl, tq_next, tq_ret,
                   tq_accepted, tq_raised>>
    /\ UNCHANGED othersTQ

\* _drain: send_fn returns or raises.
TQ_drain_sent(w) ==
    /\ tq_pc[w] = "in_send"
    /\ \E outcome \in {"ok", "raise"} :
          /\ tq_pc' = [tq_pc EXCEPT ![w] = AfterSend(outcome)]
          /\ tq_raised' = IF outcome = "raise"
                          THEN tq_raised \cup {tq_data[w]} ELSE tq_raised
    /\ tq_data' = [tq_data EXCEPT ![w] = 0]
    /\ UNCHANGED <<tq_maxsize, tq_delay_fn, tq_queue, tq_dropped, tq_stop,
                   tq_thread, tq_created, tq_ctl, tq_next, tq_ret, tq_accepted,
                   tq_sent>>
    /\ UNCHANGED othersTQ

\* ------------------------------------------------------------------------
\* MeshtasticInterface: process_incoming, _do_send and the drain of its queue
\* ------------------------------------------------------------------------

\* CircuitBreaker() and TxQueue(maxsize=32) as the interface constructs them;
\* the clock tick is 15 seconds (recovery_timeout = 30.0).
DEFAULT_FAILURE_THRESHOLD == 5
DEFAULT_RECOVERY_TICKS == 2
MI_QUEUE_MAXSIZE == 32

\* len(data) of the packets RNS hands over.
PacketSizes == {1, 2}

\* What self.interface.sendData does: it returns, raises one of the errors
\* _do_send catches (OSError, AttributeError, TypeError), or raises another.
SendOutcomes == {"ok", "oserror", "other"}

\* The fields process_incoming is compared against afterwards.
Snapshot(read) ==
    [read |-> read, cb_state |-> cb_state, cb_failures |-> cb_failures,
     cb_opened_at |-> cb_opened_at, queue |-> tq_queue, dropped |-> tq_dropped,
     radio |-> mi_radio, txb |-> mi_txb, tx_packets |-> mi_tx_packets,
     tx_errors |-> mi_tx_errors]

\* _do_send(data): the counters, the sendData call and the breaker.  st is
\* the stored breaker state when it is called.
DoSend(data, outcome, st) ==
    /\ mi_txb' = mi_txb + data
    /\ mi_tx_packets' = mi_tx_packets + 1
    /\ mi_radio' = mi_radio + 1
    /\ mi_tx_errors' = IF outcome = "oserror" THEN mi_tx_errors + 1
                        ELSE mi_tx_errors
    /\ IF ~mi_use_cb \/ outcome = "other"
       THEN /\ cb_state' = st
            /\ UNCHANGED <<cb_failures, cb_opened_at>>
       ELSE IF outcome = "ok"
       THEN /\ cb_state' = CLOSED
            /\ cb_failures' = 0
            /\ UNCHANGED cb_opened_at
       ELSE /\ cb_failures' = cb_failures + 1
            /\ cb_state' = FailureState(st, cb_failures + 1)
            /\ cb_opened_at' =
                   FailureOpenedAt(st, cb_failures + 1, cb_opened_at, now)

\* process_incoming(data)
MI_process_incoming(data, outcome) ==
    LET read == StateRead(cb_state, cb_opened_at, now)
    IN  /\ mi_tx_packets < MaxPackets
        /\ Len(tq_queue) < MaxPending
        /\ IF ~mi_online
           THEN /\ mi_last' = Snapshot("offline")
                /\ UNCHANGED <<cb_state, cb_failures, cb_opened_at, tq_queue,
                               tq_dropped, tq_ret, mi_txb, mi_tx_packets,
                               mi_tx_errors, mi_radio>>
           ELSE IF mi_use_cb /\ ~AllowOf(read)
           THEN /\ mi_last' = Snapshot(read)
                /\ cb_state' = read
                /\ UNCHANGED <<cb_failures, cb_opened_at, tq_queue,
                               tq_dropped, tq_ret, mi_txb, mi_tx_packets,
                               mi_tx_errors, mi_radio>>
           ELSE IF mi_use_queue
           THEN /\ mi_last' = Snapshot(IF mi_use_cb THEN read ELSE "no breaker")
                /\ cb_state' = IF mi_use_cb THEN read ELSE cb_state
                /\ IF QueueFull(tq_queue)
                   THEN /\ tq_dropped' = tq_dropped + 1
                        /\ tq_ret' = "False"
                        /\ UNCHANGED tq_queue
                   ELSE /\ tq_queue' = Append(tq_queue, data)
                        /\ tq_ret' = "True"
                        /\ UNCHANGED tq_dropped
                /\ UNCHANGED <<cb_failures, cb_opened_at, mi_txb,
                               mi_tx_packets, mi_tx_errors, mi_radio>>
           ELSE /\ mi_last' = Snapshot(IF mi_use_cb THEN read ELSE "no breaker")
                /\ DoSend(data, outcome, IF mi_use_cb THEN read ELSE cb_state)
                /\ UNCHANGED <<tq_queue, tq_dropped, tq_ret>>
        /\ UNCHANGED <<now, failure_threshold, recovery_timeout, cbhist>>
        /\ UNCHANGED <<tq_maxsize, tq_delay_fn, tq_stop, tq_thread, tq_created,
                       tq_pc, tq_data, tq_ctl, tq_next, tq_accepted, tq_sent,
                       tq_raised>>
        /\ UNCHANGED <<mi_online, mi_use_cb, mi_use_queue>>
        /\ UNCHANGED othersMI

\* The drain thread of the interface's queue takes the next packet and calls
\* _do_send; it swallows whatever _do_send lets through.
MI_drain(outcome) ==
    /\ mi_online
    /\ mi_use_queue
    /\ tq_queue # <<>>
    /\ tq_queue' = Tail(tq_queue)
    /\ DoSend(Head(tq_queue), outcome, cb_state)
    /\ mi_last' = NoIncoming
    /\ UNCHANGED <<now, failure_threshold, recovery_timeout, cbhist>>
    /\ UNCHANGED <<tq_maxsize, tq_delay_fn, tq_dropped, tq_stop, tq_thread,
                   tq_created, tq_pc, tq_data, tq_ctl, tq_next, tq_ret,
                   tq_accepted, tq_sent, tq_raised>>
    /\ UNCHANGED <<mi_online, mi_use_cb, mi_use_queue>>
    /\ UNCHANGED othersMI

\* Time passes for the interface's breaker.
MI_tick ==
    /\ now < MaxTime
    /\ now' = now + 1
    /\ mi_last' = NoIncoming
    /\ UNCHANGED <<failure_threshold, recovery_timeout, cb_state, cb_failures,
                   cb_opened_at, cbhist>>
    /\ UNCHANGED <<tqvars, mi_online, mi_use_cb, mi_use_queue, mi_txb,
                   mi_tx_packets, mi_tx_errors, mi_radio>>
    /\ UNCHANGED othersMI

\* ------------------------------------------------------------------------
\* ActiveHealthProbe
\* ------------------------------------------------------------------------
Services == {"meshtastic", "rns"}

UNKNOWN == "unknown"
HEALTHY == "healthy"
UNHEALTHY == "unhealthy"
RECOVERING == "recovering"
HealthState == {UNKNOWN, HEALTHY, UNHEALTHY, RECOVERING}

\* _run_check, healthy result: the state after the check; cp is
\* consecutive_passes already incremented.
PassState_early(st, cp) ==
    IF st # HEALTHY
    THEN IF cp + 1 >= hp_passes THEN HEALTHY
         ELSE IF st = UNHEALTHY THEN RECOVERING
         ELSE st
    ELSE st

PassState_norecover(st, cp) ==
    IF st # HEALTHY
    THEN IF cp >= hp_passes THEN HEALTHY
         ELSE st
    ELSE st

PassState(st, cp) ==
    IF st # HEALTHY
    THEN IF cp >= hp_passes THEN HEALTHY
         ELSE IF st = UNHEALTHY THEN RECOVERING
         ELSE st
    ELSE st

\* _run_check, healthy result: consecutive_passes after the check.
PassCount(st, cp) ==
    IF st # HEALTHY /\ cp >= hp_passes THEN 0 ELSE cp

\* _run_check, failing result: the state after the check; cf is
\* consecutive_fails already incremented.
FailState_early(st, cf) ==
    IF st # UNHEALTHY
    THEN IF cf + 1 >= hp_fails THEN UNHEALTHY
         ELSE IF st = RECOVERING THEN UNHEALTHY
         ELSE st
    ELSE st

FailState_stay(st, cf) ==
    IF st # UNHEALTHY
    THEN IF cf >= hp_fails THEN UNHEALTHY
         ELSE st
    ELSE st

FailState(st, cf) ==
    IF st # UNHEALTHY
    THEN IF cf >= hp_fails THEN UNHEALTHY
         ELSE IF st = RECOVERING THEN UNHEALTHY
         ELSE st
    ELSE st

\* _run_check, failing result: consecutive_fails after the check.
FailCount(st, cf) ==
    IF st # UNHEALTHY /\ cf >= hp_fails THEN 0 ELSE cf

\* A dict with one more (or one replaced) key.
Put(f, k, v) == [x \in (DOMAIN f) \cup {k} |-> IF x = k THEN v ELSE f[x]]

NoServices == [x \in {} |-> 0]

\* No is_healthy call has returned since the probe last changed.
NoQuery == [svc |-> "none", ret |-> "none"]

\* is_healthy(service_name): _states.get(name) is None for a name that was
\* never registered.
IsHealthy_notunhealthy(s) ==
    IF s \notin hp_checks THEN "False"
    ELSE IF hp_state[s] # UNHEALTHY THEN "True" ELSE "False"

IsHealthy(s) ==
    IF s \notin hp_checks THEN "False"
    ELSE IF hp_state[s] = HEALTHY THEN "True" ELSE "False"

\* _run_check: HealthResult.healthy of what check_fn produced; the except
\* clause builds a result with healthy=False.
ResultHealthy_raiseok(outcome) == outcome # "fail"

ResultHealthy(outcome) == outcome = "pass"

\* __init__: the three events callbacks can be registered for.
NoCallbacks == [e \in {"on_healthy", "on_unhealthy", "on_state_change"} |-> <<>>]

\* One invocation cb(service_name, new_state) of a callable registered for
\* event ev; raising is the set of callables that raise when invoked.
Invocations(ev, s, new, raising) ==
    [i \in 1..Len(hp_callbacks[ev]) |->
        [event |-> ev, cb |-> hp_callbacks[ev][i], svc |-> s, state |-> new,
         raised |-> hp_callbacks[ev][i] \in raising]]

\* The event specific to a new state (None in the code for the other states).
StateKey(new) ==
    IF new = HEALTHY THEN "on_healthy"
    ELSE IF new = UNHEALTHY THEN "on_unhealthy"
    ELSE "none"

\* _fire_callbacks(service_name, new_state): the invocations it makes.
FireCallbacks_uncaught(s, new, raising) ==
    LET all == Invocations("on_state_change", s, new, raising)
               \o (IF StateKey(new) # "none"
                   THEN Invocations(StateKey(new), s, new, raising)
                   ELSE <<>>)
        bad == {i \in 1..Len(all) : all[i].raised}
    IN  IF bad = {} THEN all
        ELSE SubSeq(all, 1, CHOOSE i \in bad : \A j \in bad : i <= j)

FireCallbacks(s, new, raising) ==
    Invocations("on_state_change", s, new, raising)
    \o (IF StateKey(new) # "none"
        THEN Invocations(StateKey(new), s, new, raising)
        ELSE <<>>)

\* No check has returned yet.
NoResult == [svc |-> "none", healthy |-> FALSE, reason |-> "none"]

InitHP ==
    /\ hp_fails \in 1..MaxHpThreshold
    /\ hp_passes \in 1..MaxHpThreshold
    /\ hp_checks = {}
    /\ hp_state = NoServices
    /\ hp_cpasses = NoServices
    /\ hp_cfails = NoServices
    /\ hp_total_checks = NoServices
    /\ hp_total_passes = NoServices
    /\ hp_total_fails = NoServices
    /\ hp_result = NoResult
    /\ hp_hist = NoServices
    /\ hp_query = NoQuery
    /\ hp_callbacks = NoCallbacks
    /\ hp_cb_calls = 0
    /\ hp_fired = <<>>
    /\ IdlePL

\* A probe nobody uses (the other specifications).
IdleHP ==
    /\ hp_fails = 1
    /\ hp_passes = 1
    /\ hp_checks = {}
    /\ hp_state = NoServices
    /\ hp_cpasses = NoServices
    /\ hp_cfails = NoServices
    /\ hp_total_checks = NoServices
    /\ hp_total_passes = NoServices
    /\ hp_total_fails = NoServices
    /\ hp_result = NoResult
    /\ hp_hist = NoServices
    /\ hp_query = NoQuery
    /\ hp_callbacks = NoCallbacks
    /\ hp_cb_calls = 0
    /\ hp_fired = <<>>
    /\ IdlePL

\* register_check(service_name, check_fn): a fresh ServiceHealthState, also
\* for a name registered before.  What it does to the probe.
RegisterCheck(s) ==
    /\ hp_checks' = hp_checks \cup {s}
    /\ hp_state' = Put(hp_state, s, UNKNOWN)
    /\ hp_cpasses' = Put(hp_cpasses, s, 0)
    /\ hp_cfails' = Put(hp_cfails, s, 0)
    /\ hp_total_checks' = Put(hp_total_checks, s, 0)
    /\ hp_total_passes' = Put(hp_total_passes, s, 0)
    /\ hp_total_fails' = Put(hp_total_fails, s, 0)
    /\ hp_hist' = Put(hp_hist, s, <<>>)
    /\ hp_query' = NoQuery
    /\ UNCHANGED <<hp_fails, hp_passes, hp_result, hp_callbacks, hp_cb_calls, hp_fired>>

HP_register_check(s) == RegisterCheck(s) /\ UNCHANGED othersHP

\* _run_check(service_name), what it does to the probe once check_fn has
\* returned a healthy result ("pass"), an unhealthy one ("fail"), or raised
\* ("raise"); for a service without a check it returns at once.
RunCheck_keepfails(s, outcome) ==
    IF s \notin hp_checks
    THEN /\ hp_result' = [svc |-> s, healthy |-> FALSE, reason |-> "no_check_registered"]
         /\ hp_query' = NoQuery
         /\ hp_fired' = <<>>
         /\ UNCHANGED <<hp_callbacks, hp_cb_calls>>
         /\ UNCHANGED <<hp_fails, hp_passes, hp_checks, hp_state, hp_cpasses,
                        hp_cfails, hp_total_checks, hp_total_passes,
                        hp_total_fails, hp_hist>>
    ELSE /\ Len(hp_hist[s]) < MaxChecks
         /\ hp_result' = [svc |-> s, healthy |-> ResultHealthy(outcome),
                          reason |-> IF outcome = "pass" THEN "ok"
                                     ELSE IF outcome = "fail" THEN "down"
                                     ELSE "check_exception"]
         /\ hp_total_checks' = [hp_total_checks EXCEPT ![s] = @ + 1]
         /\ hp_hist' = [hp_hist EXCEPT ![s] = Append(@, ResultHealthy(outcome))]
         /\ IF ResultHealthy(outcome)
            THEN /\ hp_state' = [hp_state EXCEPT ![s] = PassState(@, hp_cpasses[s] + 1)]
                 /\ hp_cpasses' = [hp_cpasses EXCEPT ![s] = PassCount(hp_state[s], @ + 1)]
                 /\ UNCHANGED hp_cfails
                 /\ hp_total_passes' = [hp_total_passes EXCEPT ![s] = @ + 1]
                 /\ UNCHANGED hp_total_fails
            ELSE /\ hp_state' = [hp_state EXCEPT ![s] = FailState(@, hp_cfails[s] + 1)]
                 /\ hp_cfails' = [hp_cfails EXCEPT ![s] = FailCount(hp_state[s], @ + 1)]
                 /\ hp_cpasses' = [hp_cpasses EXCEPT ![s] = 0]
                 /\ hp_total_fails' = [hp_total_fails EXCEPT ![s] = @ + 1]
                 /\ UNCHANGED hp_total_passes
         /\ hp_query' = NoQuery
         /\ IF hp_state'[s] # hp_state[s]
            THEN \E raising \in SUBSET (1..hp_cb_calls) :
                     hp_fired' = FireCallbacks(s, hp_state'[s], raising)
            ELSE hp_fired' = <<>>
         /\ UNCHANGED <<hp_callbacks, hp_cb_calls>>
         /\ UNCHANGED <<hp_fails, hp_passes, hp_checks>>

RunCheck(s, outcome) ==
    IF s \notin hp_checks
    THEN /\ hp_result' = [svc |-> s, healthy |-> FALSE, reason |-> "no_check_registered"]
         /\ hp_query' = NoQuery
         /\ hp_fired' = <<>>
         /\ UNCHANGED <<hp_callbacks, hp_cb_calls>>
         /\ UNCHANGED <<hp_fails, hp_passes, hp_checks, hp_state, hp_cpasses,
                        hp_cfails, hp_total_checks, hp_total_passes,
                        hp_total_fails, hp_hist>>
    ELSE /\ Len(hp_hist[s]) < MaxChecks
         /\ hp_result' = [svc |-> s, healthy |-> ResultHealthy(outcome),
                          reason |-> IF outcome = "pass" THEN "ok"
                                     ELSE IF outcome = "fail" THEN "down"
                                     ELSE "check_exception"]
         /\ hp_total_checks' = [hp_total_checks EXCEPT ![s] = @ + 1]
         /\ hp_hist' = [hp_hist EXCEPT ![s] = Append(@, ResultHealthy(outcome))]
         /\ IF ResultHealthy(outcome)
            THEN /\ hp_state' = [hp_state EXCEPT ![s] = PassState(@, hp_cpasses[s] + 1)]
                 /\ hp_cpasses' = [hp_cpasses EXCEPT ![s] = PassCount(hp_state[s], @ + 1)]
                 /\ hp_cfails' = [hp_cfails EXCEPT ![s] = 0]
                 /\ hp_total_passes' = [hp_total_passes EXCEPT ![s] = @ + 1]
                 /\ UNCHANGED hp_total_fails
            ELSE /\ hp_state' = [hp_state EXCEPT ![s] = FailState(@, hp_cfails[s] + 1)]
                 /\ hp_cfails' = [hp_cfails EXCEPT ![s] = FailCount(hp_state[s], @ + 1)]
                 /\ hp_cpasses' = [hp_cpasses EXCEPT ![s] = 0]
                 /\ hp_total_fails' = [hp_total_fails EXCEPT ![s] = @ + 1]
                 /\ UNCHANGED hp_total_passes
         /\ hp_query' = NoQuery
         /\ IF hp_state'[s] # hp_state[s]
            THEN \E raising \in SUBSET (1..hp_cb_calls) :
                     hp_fired' = FireCallbacks(s, hp_state'[s], raising)
            ELSE hp_fired' = <<>>
         /\ UNCHANGED <<hp_callbacks, hp_cb_calls>>
         /\ UNCHANGED <<hp_fails, hp_passes, hp_checks>>

\* _run_check(service_name) / check_now(service_name) with nothing else
\* running.
HP_run_check(s, outcome) == RunCheck(s, outcome) /\ UNCHANGED othersHP

\* is_healthy(service_name).
HP_is_healthy(s) ==
    /\ hp_query' = [svc |-> s, ret |-> IsHealthy(s)]
    /\ UNCHANGED <<hp_fails, hp_passes, hp_checks, hp_state, hp_cpasses,
                   hp_cfails, hp_total_checks, hp_total_passes,
                   hp_total_fails, hp_result, hp_hist, hp_callbacks,
                   hp_cb_calls, hp_fired>>
    /\ UNCHANGED othersHP

\* register_callback(event, callback): an event that is not one of the three
\* is ignored.
HP_register_callback(event) ==
    /\ hp_cb_calls < MaxCallbacks
    /\ hp_cb_calls' = hp_cb_calls + 1
    /\ hp_callbacks' = IF event \in DOMAIN hp_callbacks
                       THEN [hp_callbacks EXCEPT ![event] = Append(@, hp_cb_calls + 1)]
                       ELSE hp_callbacks
    /\ hp_query' = NoQuery
    /\ UNCHANGED <<hp_fails, hp_passes, hp_checks, hp_state, hp_cpasses,
                   hp_cfails, hp_total_checks, hp_total_passes,
                   hp_total_fails, hp_result, hp_hist, hp_fired>>
    /\ UNCHANGED othersHP

\* ------------------------------------------------------------------------
\* ActiveHealthProbe: start, stop, the background loop and check_now
\* ------------------------------------------------------------------------

\* ActiveHealthProbe(interval=30, fails=3, passes=2)
DEFAULT_FAILS == 3
DEFAULT_PASSES == 2

\* Thread.is_alive(): the thread was started and _probe_loop has not ended.
PlAlive(w) == pl_pc[w] \notin {"none", "done"}

\* The service the for loop of thread w is at.
PlCurrent(w) == pl_services[w][pl_idx[w]]

\* What check_fn does: it returns a healthy result, an unhealthy one, or
\* raises.
CheckOutcomes == {"pass", "fail", "raise"}

\* Where _probe_loop goes when the body of one iteration raises: the outer
\* `except Exception` logs and waits min(interval, 5) before the next one.
AfterLoopError_uncaught == "done"

AfterLoopError == "errwait"

\* Where the for loop goes once _run_check(svc) has come back.
AfterCheck == "for"

\* start(): nothing when _thread is alive; otherwise clear _stop_event and
\* start a new loop thread.
PL_start ==
    /\ pl_ctl = "idle"
    /\ IF pl_thread # 0 /\ PlAlive(pl_thread)
       THEN UNCHANGED <<pl_stop_event, pl_thread, pl_created, pl_pc>>
       ELSE /\ pl_created < MaxLoops
            /\ pl_stop_event' = FALSE
            /\ pl_created' = pl_created + 1
            /\ pl_thread' = pl_created + 1
            /\ pl_pc' = [pl_pc EXCEPT ![pl_created + 1] = "loop"]
    /\ pl_h_started' = TRUE
    /\ UNCHANGED <<pl_ctl, pl_keys, pl_services, pl_idx, pl_loop_errors,
                   pl_h_cycle, pl_app>>
    /\ UNCHANGED hpvars
    /\ UNCHANGED othersPL

\* stop(timeout), up to the join: set _stop_event; with a thread, wait for it.
PL_stop ==
    /\ pl_ctl = "idle"
    /\ pl_stop_event' = TRUE
    /\ pl_ctl' = IF pl_thread # 0 THEN "join" ELSE "idle"
    /\ pl_h_started' = FALSE
    /\ UNCHANGED <<pl_thread, pl_created, pl_keys, plloop, pl_app>>
    /\ UNCHANGED hpvars
    /\ UNCHANGED othersPL

\* stop(timeout), the join returns - because the thread ended or because the
\* timeout expired with the thread still alive; _thread is kept.
PL_stop_join ==
    /\ pl_ctl = "join"
    /\ pl_ctl' = "idle"
    /\ UNCHANGED <<pl_stop_event, pl_thread, pl_created, pl_h_started,
                   pl_keys, plloop, pl_app>>
    /\ UNCHANGED hpvars
    /\ UNCHANGED othersPL

\* register_check(service_name, check_fn) on a probe whose loop may be
\* running: a new key goes to the end of _checks, a known key keeps its place.
\* Each service is registered once here (SpecHP registers them again).
PL_register_check(s) ==
    /\ s \notin hp_checks
    /\ RegisterCheck(s)
    /\ pl_keys' = IF s \in hp_checks THEN pl_keys ELSE Append(pl_keys, s)
    /\ UNCHANGED <<plctl, plloop, pl_app>>
    /\ UNCHANGED othersPL

\* _probe_loop: `while not self._stop_event.is_set()`; the locals of the
\* previous iteration are dead here.
PL_loop_test(w) ==
    /\ pl_pc[w] = "loop"
    /\ pl_pc' = [pl_pc EXCEPT ![w] = IF pl_stop_event THEN "done" ELSE "cycle"]
    /\ pl_services' = [pl_services EXCEPT ![w] = <<>>]
    /\ pl_idx' = [pl_idx EXCEPT ![w] = 0]
    /\ pl_loop_errors' = [pl_loop_errors EXCEPT ![w] = IF pl_stop_event THEN 0 ELSE @]
    /\ pl_h_cycle' = [pl_h_cycle EXCEPT ![w] = <<>>]
    /\ UNCHANGED <<plctl, pl_keys, pl_app>>
    /\ UNCHANGED hpvars
    /\ UNCHANGED othersPL

\* _probe_loop: `services = list(self._checks.keys())`, the start of one
\* iteration; "error" is an unexpected exception in the body of the
\* iteration, which the outer handler takes.
PL_cycle(w, outcome) ==
    /\ pl_pc[w] = "cycle"
    /\ IF outcome = "ok"
       THEN /\ pl_services' = [pl_services EXCEPT ![w] = pl_keys]
            /\ pl_idx' = [pl_idx EXCEPT ![w] = 0]
            /\ pl_h_cycle' = [pl_h_cycle EXCEPT ![w] = <<>>]
            /\ pl_pc' = [pl_pc EXCEPT ![w] = "for"]
            /\ UNCHANGED pl_loop_errors
       ELSE /\ pl_loop_errors[w] < MaxLoopErrors
            /\ pl_loop_errors' = [pl_loop_errors EXCEPT ![w] = @ + 1]
            /\ pl_pc' = [pl_pc EXCEPT ![w] = AfterLoopError]
            /\ UNCHANGED <<pl_services, pl_idx, pl_h_cycle>>
    /\ UNCHANGED <<plctl, pl_keys, pl_app>>
    /\ UNCHANGED hpvars
    /\ UNCHANGED othersPL

\* _probe_loop: `for svc in services`, the test of _stop_event and the call
\* of _run_check(svc) up to its call of check_fn.
PL_for(w) ==
    /\ pl_pc[w] = "for"
    /\ IF pl_idx[w] = Len(pl_services[w]) \/ pl_stop_event
       THEN /\ pl_pc' = [pl_pc EXCEPT ![w] = "wait"]
            /\ UNCHANGED pl_idx
       ELSE /\ Len(hp_hist[pl_services[w][pl_idx[w] + 1]]) < MaxLoopChecks
            /\ pl_idx' = [pl_idx EXCEPT ![w] = @ + 1]
            /\ pl_pc' = [pl_pc EXCEPT ![w] = "in_check"]
    /\ UNCHANGED <<plctl, pl_keys, pl_services, pl_loop_errors, pl_h_cycle,
                   pl_app>>
    /\ UNCHANGED hpvars
    /\ UNCHANGED othersPL

\* _probe_loop: check_fn returns or raises and _run_check(svc) finishes.
PL_check_return(w, outcome) ==
    /\ pl_pc[w] = "in_check"
    /\ RunCheck(PlCurrent(w), outcome)
    /\ pl_h_cycle' = [pl_h_cycle EXCEPT ![w] = Append(@, PlCurrent(w))]
    /\ pl_pc' = [pl_pc EXCEPT ![w] = AfterCheck]
    /\ UNCHANGED <<plctl, pl_keys, pl_services, pl_idx, pl_loop_errors,
                   pl_app>>
    /\ UNCHANGED othersPL

\* _probe_loop: `self._stop_event.wait(self.interval)` returns, the interval
\* over or the event set.
PL_wait(w) ==
    /\ pl_pc[w] = "wait"
    /\ pl_pc' = [pl_pc EXCEPT ![w] = "loop"]
    /\ UNCHANGED <<plctl, pl_keys, pl_services, pl_idx, pl_loop_errors,
                   pl_h_cycle, pl_app>>
    /\ UNCHANGED hpvars
    /\ UNCHANGED othersPL

\* _probe_loop, the outer handler: `self._stop_event.wait(min(self.interval, 5))`
\* returns.
PL_errwait(w) ==
    /\ pl_pc[w] = "errwait"
    /\ pl_pc' = [pl_pc EXCEPT ![w] = "loop"]
    /\ UNCHANGED <<plctl, pl_keys, pl_services, pl_idx, pl_loop_errors,
                   pl_h_cycle, pl_app>>
    /\ UNCHANGED hpvars
    /\ UNCHANGED othersPL

\* check_now(service_name) called by the application, up to the call of
\* check_fn; for a name without a check _run_check returns at once.
PL_check_now(s) ==
    /\ pl_app = "idle"
    /\ IF s \notin hp_checks
       THEN /\ RunCheck(s, "fail")
            /\ UNCHANGED pl_app
       ELSE /\ Len(hp_hist[s]) < MaxLoopChecks
            /\ pl_app' = s
            /\ UNCHANGED hpvars
    /\ UNCHANGED <<plctl, pl_keys, plloop>>
    /\ UNCHANGED othersPL

\* check_now: check_fn returns or raises and _run_check finishes.
PL_check_now_return(outcome) ==
    /\ pl_app # "idle"
    /\ RunCheck(pl_app, outcome)
    /\ pl_app' = "idle"
    /\ UNCHANGED <<plctl, pl_keys, plloop>>
    /\ UNCHANGED othersPL

\* ------------------------------------------------------------------------
\* BridgeHealthMonitor
\* ------------------------------------------------------------------------

\* The two services __init__ tracks, and one more name a caller may pass.
BaseServices == {"meshtastic", "rns"}
BhServices == BaseServices \cup {"mqtt"}

ConnEvents == {"connected", "disconnected", "error", "retry"}

\* get_bridge_status, should_pause_bridging: get_error_rate(window_seconds=60)
ERROR_WINDOW == 60
\* get_bridge_status: sum(errors.values()) >= 10
HIGH_ERROR_RATE == 10
\* should_pause_bridging: sum(errors.values()) > 20
PAUSE_ERROR_RATE == 20
\* __init__(window_size=1000): maxlen of the rolling windows
WINDOW_SIZE == 1000

\* One step of the wall clock: half the error window.
TickSeconds == ERROR_WINDOW \div 2

\* The error window never holds more than this in a run: one more than the
\* larger threshold.
MaxErrors == PAUSE_ERROR_RATE + 1

\* dict.get(k, default)
Get(f, k, d) == IF k \in DOMAIN f THEN f[k] ELSE d

\* deque(maxlen=n).append(x): the oldest entry is dropped from a full deque.
DequeAppend(q, x, n) ==
    IF Len(q) < n THEN Append(q, x) ELSE Append(Tail(q), x)

NoEvent == [timestamp |-> 0, service |-> "none", event |-> "none"]
NoRet == [op |-> "none", value |-> "none"]

\* An exception: its class and the phrases str(error) is made of.
PlainError == [class |-> "Exception", msg |-> {}]

PERMANENT_ERROR_PATTERNS ==
    {"signal only works in main thread", "reinitialise", "already running",
     "permission denied", "no such device", "module not found", "import error"}

TRANSIENT_ERROR_PATTERNS ==
    {"connection reset", "connection refused", "broken pipe", "timeout",
     "timed out", "temporarily unavailable", "network unreachable",
     "no route to host", "address already in use", "serial port busy",
     "device disconnected", "usb disconnect", "resource temporarily unavailable"}

\* The phrases the messages of the modelled exceptions are made of.
Phrases == {"Permission Denied", "Timed out", "disk full"}

\* str.lower() on a phrase.
Lower(phrase) ==
    IF phrase = "Permission Denied" THEN "permission denied"
    ELSE IF phrase = "Timed out" THEN "timed out"
    ELSE phrase

\* `pattern in msg` for the lowered message of an exception.
InMessage(pattern, error) == \E phrase \in error.msg : Lower(phrase) = pattern

\* The classes of the modelled exceptions, each with its base classes.
Mro ==
    [c \in {"TimeoutError", "BrokenPipeError", "PermissionError", "ValueError",
             "Exception"} |->
        IF c = "TimeoutError" THEN {"TimeoutError", "OSError", "Exception"}
        ELSE IF c = "BrokenPipeError"
             THEN {"BrokenPipeError", "ConnectionError", "OSError", "Exception"}
        ELSE IF c = "PermissionError" THEN {"PermissionError", "OSError", "Exception"}
        ELSE IF c = "ValueError" THEN {"ValueError", "Exception"}
        ELSE {"Exception"}]

\* isinstance(error, classes)
IsInstance(error, classes) == Mro[error.class] \cap classes # {}

\* The exceptions a link may raise.
Errors ==
    [class : {"TimeoutError", "BrokenPipeError", "PermissionError", "ValueError"},
     msg : SUBSET Phrases]

\* classify_error(error)
ClassifyError_transientfirst(error) ==
    IF \E pattern \in TRANSIENT_ERROR_PATTERNS : InMessage(pattern, error)
    THEN "transient"
    ELSE IF \E pattern \in PERMANENT_ERROR_PATTERNS : InMessage(pattern, error)
    THEN "permanent"
    ELSE IF IsInstance(error, {"ConnectionError", "BrokenPipeError",
                               "ConnectionResetError", "TimeoutError", "OSError"})
    THEN "transient"
    ELSE "unknown"

ClassifyError(error) ==
    IF \E pattern \in PERMANENT_ERROR_PATTERNS : InMessage(pattern, error)
    THEN "permanent"
    ELSE IF \E pattern \in TRANSIENT_ERROR_PATTERNS : InMessage(pattern, error)
    THEN "transient"
    ELSE IF IsInstance(error, {"ConnectionError", "BrokenPipeError",
                               "ConnectionResetError", "TimeoutError", "OSError"})
    THEN "transient"
    ELSE "unknown"

\* __init__
InitBH ==
    /\ bh_now = 0
    /\ bh_start_time = 0
    /\ bh_connected = [s \in BaseServices |-> FALSE]
    /\ bh_last_connected = NoServices
    /\ bh_last_disconnected = NoServices
    /\ bh_connection_count = [s \in BaseServices |-> 0]
    /\ bh_uptime_seconds = [s \in BaseServices |-> 0]
    /\ bh_connection_events = 0
    /\ bh_error_events = <<>>
    /\ bh_error = PlainError
    /\ bh_ret = NoRet
    /\ bh_event = NoEvent
    /\ bh_h_conn = NoServices
    /\ bh_h_errors = <<>>

\* __init__, for a run whose links raise any one of the modelled exceptions.
InitBHE ==
    /\ bh_now = 0
    /\ bh_start_time = 0
    /\ bh_connected = [s \in BaseServices |-> FALSE]
    /\ bh_last_connected = NoServices
    /\ bh_last_disconnected = NoServices
    /\ bh_connection_count = [s \in BaseServices |-> 0]
    /\ bh_uptime_seconds = [s \in BaseServices |-> 0]
    /\ bh_connection_events = 0
    /\ bh_error_events = <<>>
    /\ bh_error \in Errors
    /\ bh_ret = NoRet
    /\ bh_event = NoEvent
    /\ bh_h_conn = NoServices
    /\ bh_h_errors = <<>>

\* A monitor nobody uses (the other specifications).
IdleBH == InitBH

\* The wall clock advances.
BH_tick ==
    /\ bh_now < MaxWallTicks * TickSeconds
    /\ bh_now' = bh_now + TickSeconds
    /\ UNCHANGED <<bh_start_time, bh_connected, bh_last_connected,
                   bh_last_disconnected, bh_connection_count, bh_uptime_seconds,
                   bh_connection_events, bh_error_events, bh_error, bh_ret,
                   bh_event, bh_h_conn, bh_h_errors>>
    /\ UNCHANGED othersBH

\* The wall clock advances by just over one error window.
BH_window_passes ==
    /\ bh_now + ERROR_WINDOW + 1 <= MaxWallTicks * TickSeconds
    /\ bh_now' = bh_now + ERROR_WINDOW + 1
    /\ UNCHANGED <<bh_start_time, bh_connected, bh_last_connected,
                   bh_last_disconnected, bh_connection_count, bh_uptime_seconds,
                   bh_connection_events, bh_error_events, bh_error, bh_ret,
                   bh_event, bh_h_conn, bh_h_errors>>
    /\ UNCHANGED othersBH

\* get_error_rate(window_seconds): the sum of the counts it returns.
RecentErrors(window_seconds) ==
    Cardinality({i \in 1..Len(bh_error_events) :
                    bh_error_events[i].timestamp >= bh_now - window_seconds})

HEALTHY_BRIDGE == "healthy"
DEGRADED == "degraded"
OFFLINE == "offline"

\* get_bridge_status(): high_error_rate
HighErrorRate_gt == RecentErrors(ERROR_WINDOW) > HIGH_ERROR_RATE

HighErrorRate == RecentErrors(ERROR_WINDOW) >= HIGH_ERROR_RATE

\* get_bridge_status()
BridgeStatus ==
    LET connected_count == Cardinality({s \in DOMAIN bh_connected : bh_connected[s]})
    IN  IF connected_count = 0 THEN OFFLINE
        ELSE IF connected_count = Cardinality(DOMAIN bh_connected) /\ ~HighErrorRate
        THEN HEALTHY_BRIDGE
        ELSE DEGRADED

\* get_degraded_reason(): the reasons it joins with "; ", in order; is_none
\* when the list is empty and None is returned.
DegradedReason ==
    LET mesh_up == IF "meshtastic" \in DOMAIN bh_connected
                   THEN bh_connected["meshtastic"] ELSE FALSE
        rns_up == IF "rns" \in DOMAIN bh_connected
                  THEN bh_connected["rns"] ELSE FALSE
        error_count == RecentErrors(ERROR_WINDOW)
        reasons == (IF ~mesh_up THEN <<"Meshtastic disconnected">> ELSE <<>>)
                   \o (IF ~rns_up THEN <<"RNS disconnected">> ELSE <<>>)
                   \o (IF error_count >= HIGH_ERROR_RATE
                       THEN <<"High error rate">> ELSE <<>>)
    IN  [is_none |-> reasons = <<>>, reasons |-> reasons]

\* should_pause_bridging()
ShouldPause_ge ==
    IF BridgeStatus = OFFLINE THEN "True"
    ELSE IF RecentErrors(ERROR_WINDOW) >= PAUSE_ERROR_RATE THEN "True" ELSE "False"

ShouldPause ==
    IF BridgeStatus = OFFLINE THEN "True"
    ELSE IF RecentErrors(ERROR_WINDOW) > PAUSE_ERROR_RATE THEN "True" ELSE "False"

\* record_error(service, error), for the exception of this run.
BH_record_error(service) ==
    /\ Len(bh_error_events) < MaxErrors
    /\ bh_error_events' =
          DequeAppend(bh_error_events,
                      [timestamp |-> bh_now, service |-> service,
                       category |-> ClassifyError(bh_error)],
                      WINDOW_SIZE)
    /\ bh_ret' = [op |-> "record_error", value |-> ClassifyError(bh_error)]
    /\ bh_h_errors' = Append(bh_h_errors, bh_now)
    /\ UNCHANGED <<bh_now, bh_start_time, bh_connected, bh_last_connected,
                   bh_last_disconnected, bh_connection_count, bh_uptime_seconds,
                   bh_connection_events, bh_error, bh_event, bh_h_conn>>
    /\ UNCHANGED othersBH

\* record_connection_event, event == "connected": whether the service counts
\* as newly connected.
NewlyConnected_always(service) == TRUE

NewlyConnected(service) == ~Get(bh_connected, service, FALSE)

\* record_connection_event, event in ("disconnected", "error"): whether a
\* connected span ends here.
StillConnected_stamped(service) == service \in DOMAIN bh_last_connected

StillConnected(service) == Get(bh_connected, service, FALSE)

\* record_connection_event(service, event)
BH_record_connection_event(service, event) ==
    /\ bh_connection_events < MaxConnEvents
    /\ bh_connection_events' =
          IF bh_connection_events < WINDOW_SIZE
          THEN bh_connection_events + 1 ELSE bh_connection_events
    /\ bh_event' = [timestamp |-> bh_now, service |-> service, event |-> event]
    /\ IF event = "connected"
       THEN /\ IF NewlyConnected(service)
               THEN /\ bh_connected' = Put(bh_connected, service, TRUE)
                    /\ bh_last_connected' = Put(bh_last_connected, service, bh_now)
                    /\ bh_connection_count' =
                          Put(bh_connection_count, service,
                              Get(bh_connection_count, service, 0) + 1)
               ELSE UNCHANGED <<bh_connected, bh_last_connected, bh_connection_count>>
            /\ UNCHANGED <<bh_uptime_seconds, bh_last_disconnected>>
       ELSE IF event \in {"disconnected", "error"}
       THEN /\ IF StillConnected(service)
               THEN bh_uptime_seconds' =
                       Put(bh_uptime_seconds, service,
                           Get(bh_uptime_seconds, service, 0)
                           + (bh_now - Get(bh_last_connected, service, bh_now)))
               ELSE UNCHANGED bh_uptime_seconds
            /\ bh_connected' = Put(bh_connected, service, FALSE)
            /\ bh_last_disconnected' = Put(bh_last_disconnected, service, bh_now)
            /\ UNCHANGED <<bh_last_connected, bh_connection_count>>
       ELSE UNCHANGED <<bh_connected, bh_last_connected, bh_last_disconnected,
                        bh_connection_count, bh_uptime_seconds>>
    /\ bh_h_conn' = IF event \in {"connected", "disconnected", "error"}
                    THEN Put(bh_h_conn, service, event) ELSE bh_h_conn
    /\ UNCHANGED <<bh_now, bh_start_time, bh_error_events, bh_error, bh_ret,
                   bh_h_errors>>
    /\ UNCHANGED othersBH

\* ------------------------------------------------------------------------
\* ReconnectStrategy
\* ------------------------------------------------------------------------

\* A float holds values below 2^1024; a power that reaches it raises
\* OverflowError.
FLOAT_MAX_EXP == 1024

\* Powers of two up to this exponent are computed exactly; with any larger
\* exponent initial_delay * multiplier ** attempt is above every max_delay.
EXACT_EXP == 16

\* math.log2 of the multipliers of the model.
Log2(m) == IF m = 1 THEN 0 ELSE IF m = 2 THEN 1 ELSE 2

RECURSIVE Pow2(_)
Pow2(e) == IF e = 0 THEN 1 ELSE 2 * Pow2(e - 1)

Min(a, b) == IF a <= b THEN a ELSE b

\* The values random.uniform(-jitter_range, jitter_range) is drawn from, in
\* percent of jitter_range: its two ends and its middle.
Draws == {-100, 0, 100}

\* self.multiplier ** attempt raises OverflowError.
PowerOverflows(attempt) == Log2(rs_multiplier) * attempt >= FLOAT_MAX_EXP

\* base = min(self.initial_delay * (self.multiplier ** attempt), self.max_delay)
BaseDelay(attempt) ==
    IF Log2(rs_multiplier) * attempt > EXACT_EXP
    THEN rs_max_delay
    ELSE Min(rs_initial_delay * Pow2(Log2(rs_multiplier) * attempt), rs_max_delay)

\* get_delay with the jitter range taken from max_delay instead of base.
GetDelay_jittermax(attempt, u) ==
    IF PowerOverflows(attempt)
    THEN [raised |-> "OverflowError", value |-> 0]
    ELSE [raised |-> "none",
          value |-> BaseDelay(attempt)
                    + (rs_max_delay * rs_jitter * u) \div 10000]

\* get_delay(attempt) for attempt >= 0, with the jitter draw u.
GetDelay(attempt, u) ==
    IF PowerOverflows(attempt)
    THEN [raised |-> "OverflowError", value |-> 0]
    ELSE [raised |-> "none",
          value |-> BaseDelay(attempt)
                    + (BaseDelay(attempt) * rs_jitter * u) \div 10000]

NoDelay == [attempt |-> 0, draw |-> 0, raised |-> "no call", value |-> 0]

\* No throughput_factor() call yet (the clock is never 0).
NoFactor == [at |-> 0, value |-> 0]

\* No call made on the strategy yet.
NoCall == [op |-> "none", at |-> 0, attempts |-> 0, recovery_start |-> 0,
           ret |-> "none"]

\* The last call: its name, the clock, the failures recorded and the
\* _recovery_start it found, and what it returned.
Call(op, ret) ==
    [op |-> op, at |-> rs_clock, attempts |-> rs_h_failures,
     recovery_start |-> rs_recovery_start, ret |-> ret]

\* No wait() call made yet.
NoWait == [status |-> "none", delay |-> 0, waited |-> 0, set_before |-> FALSE,
           set_during |-> FALSE, ret |-> "none"]

\* The clock tick is 10 seconds: the defaults max_attempts = 10 and
\* slow_start_duration = 30.0.
DEFAULT_MAX_ATTEMPTS == 10
DEFAULT_SLOW_START == 3

\* The mutable fields and the history at construction; nothing waits on the
\* stop event and the reconnect loop is not running.
FreshRS ==
    /\ rs_attempts = 0
    /\ rs_recovery_start = 0
    /\ rs_clock = 1
    /\ rs_ret = NoDelay
    /\ rs_factor = NoFactor
    /\ rs_last = NoCall
    /\ rs_h_failures = 0
    /\ rs_h_recovered = 0
    /\ rs_stop_event = FALSE
    /\ rs_wait = NoWait
    /\ rl_pc = "idle"
    /\ rl_failed = 0

\* __init__ of a strategy that goes on retrying, the other fields at their
\* defaults
InitRS ==
    /\ rs_initial_delay \in {1000, 2000}
    /\ rs_max_delay \in {30000, 60000}
    /\ rs_multiplier \in {1, 2, 4}
    /\ rs_jitter \in {0, 10, 15}
    /\ rs_max_attempts = MaxAttempt
    /\ rs_slow_start_duration = DEFAULT_SLOW_START
    /\ FreshRS

\* A strategy nobody uses (the other specifications).
IdleRS ==
    /\ rs_initial_delay = 2000
    /\ rs_max_delay = 60000
    /\ rs_multiplier = 2
    /\ rs_jitter = 15
    /\ rs_max_attempts = DEFAULT_MAX_ATTEMPTS
    /\ rs_slow_start_duration = DEFAULT_SLOW_START
    /\ FreshRS

\* The control loop makes its own calls on the strategy only while the
\* reconnect loop is not running and it is not blocked in wait().
LoopIdle == rl_pc \in {"idle", "done"} /\ rs_wait.status # "waiting"

\* record_failure()
RS_record_failure ==
    /\ LoopIdle
    /\ rs_attempts < rs_max_attempts + MaxOver
    /\ rs_attempts' = rs_attempts + 1
    /\ rs_h_failures' = rs_h_failures + 1
    /\ rs_last' = Call("record_failure", "none")
    /\ rs_ret' = NoDelay
    /\ UNCHANGED <<rsdelay, rsslow, rswait, rsloop>>
    /\ UNCHANGED othersRS

\* time.monotonic() moves on.
RS_tick ==
    /\ rs_clock < MaxClock
    /\ rs_clock' = rs_clock + 1
    /\ UNCHANGED <<rsdelay, rs_attempts, rs_ret, rs_h_failures, rs_last,
                   rs_max_attempts, rs_slow_start_duration, rs_recovery_start,
                   rs_factor, rs_h_recovered, rswait, rsloop>>
    /\ UNCHANGED othersRS

\* return self._attempts < self.max_attempts, with <= for <
ShouldRetry_le == rs_attempts <= rs_max_attempts

\* return self._attempts < self.max_attempts
ShouldRetry == rs_attempts < rs_max_attempts

Bool(b) == IF b THEN "True" ELSE "False"

\* should_retry()
RS_should_retry ==
    /\ LoopIdle
    /\ rs_last' = Call("should_retry", Bool(ShouldRetry))
    /\ UNCHANGED <<rsdelay, rs_attempts, rs_ret, rs_h_failures, rsslow,
                   rswait, rsloop>>
    /\ UNCHANGED othersRS

\* record_success stamping _recovery_start whatever _attempts is.
RecoveryStart_always(attempts, start, t) == t

\* if self._attempts > 0: self._recovery_start = time.monotonic()
RecoveryStart(attempts, start, t) == IF attempts > 0 THEN t ELSE start

\* record_success()
RS_record_success ==
    /\ LoopIdle
    /\ rs_recovery_start' = RecoveryStart(rs_attempts, rs_recovery_start, rs_clock)
    /\ rs_attempts' = 0
    /\ rs_h_failures' = 0
    /\ rs_h_recovered' = IF rs_h_failures > 0 THEN rs_clock ELSE rs_h_recovered
    /\ rs_last' = Call("record_success", "none")
    /\ rs_ret' = NoDelay
    /\ rs_factor' = NoFactor
    /\ UNCHANGED <<rsdelay, rs_max_attempts, rs_slow_start_duration, rs_clock,
                   rswait, rsloop>>
    /\ UNCHANGED othersRS

\* reset()
RS_reset ==
    /\ LoopIdle
    /\ rs_attempts' = 0
    /\ rs_recovery_start' = 0
    /\ rs_h_failures' = 0
    /\ rs_h_recovered' = 0
    /\ rs_last' = Call("reset", "none")
    /\ rs_ret' = NoDelay
    /\ rs_factor' = NoFactor
    /\ UNCHANGED <<rsdelay, rs_max_attempts, rs_slow_start_duration, rs_clock,
                   rswait, rsloop>>
    /\ UNCHANGED othersRS

\* throughput_factor with a ramp that starts at 0 instead of 0.1.
ThroughputFactor_fromzero(start, duration, t) ==
    IF start <= 0 \/ duration <= 0
    THEN [value |-> 1000, start |-> start]
    ELSE IF t - start >= duration
         THEN [value |-> 1000, start |-> 0]
         ELSE [value |-> (1000 * (t - start)) \div duration, start |-> start]

\* throughput_factor() at clock t: the factor in thousandths and the
\* _recovery_start it leaves.
ThroughputFactor(start, duration, t) ==
    IF start <= 0 \/ duration <= 0
    THEN [value |-> 1000, start |-> start]
    ELSE IF t - start >= duration
         THEN [value |-> 1000, start |-> 0]
         ELSE [value |-> 100 + (900 * (t - start)) \div duration, start |-> start]

\* throughput_factor(); also the drain thread of a TxQueue calls it, through
\* inter_packet_delay, so it does not wait for the reconnect loop.
RS_throughput_factor ==
    LET r == ThroughputFactor(rs_recovery_start, rs_slow_start_duration, rs_clock)
    IN  /\ rs_factor' = [at |-> rs_clock, value |-> r.value]
        /\ rs_recovery_start' = r.start
        /\ rs_last' = Call("throughput_factor", "none")
        /\ UNCHANGED <<rsdelay, rs_attempts, rs_ret, rs_h_failures,
                       rs_max_attempts, rs_slow_start_duration, rs_clock,
                       rs_h_recovered, rswait, rsloop>>
        /\ UNCHANGED othersRS

\* The timeout arguments given to wait(), in milliseconds; negative: none.
Timeouts == {-1, 10, 5000}

\* wait(stop_event, timeout): the delay is worked out (get_delay() may
\* raise), then Event.wait(delay) is entered; with the flag already set it
\* returns the flag at once.
RW_wait(timeout, u) ==
    LET d == IF timeout >= 0
             THEN [raised |-> "none", value |-> timeout]
             ELSE GetDelay(rs_attempts, u)
    IN  /\ LoopIdle
        /\ rs_ret' = IF timeout >= 0 THEN rs_ret
                      ELSE [attempt |-> rs_attempts, draw |-> u,
                            raised |-> d.raised, value |-> d.value]
        /\ rs_wait' =
              IF d.raised # "none"
              THEN [status |-> "raised", delay |-> 0, waited |-> 0,
                    set_before |-> rs_stop_event, set_during |-> FALSE,
                    ret |-> "none"]
              ELSE IF rs_stop_event
              THEN [status |-> "returned", delay |-> d.value, waited |-> 0,
                    set_before |-> TRUE, set_during |-> FALSE,
                    ret |-> Bool(~rs_stop_event)]
              ELSE [status |-> "waiting", delay |-> d.value, waited |-> 0,
                    set_before |-> FALSE, set_during |-> FALSE,
                    ret |-> "none"]
        /\ rs_last' = Call("wait", "none")
        /\ UNCHANGED <<rsdelay, rs_attempts, rs_h_failures, rsslow,
                       rs_stop_event, rsloop>>
        /\ UNCHANGED othersRS

\* Half of the delay passes while the caller is blocked.
RW_pass ==
    /\ rs_wait.status = "waiting"
    /\ rs_wait.waited = 0
    /\ rs_wait.delay > 1
    /\ rs_wait' = [rs_wait EXCEPT !.waited = rs_wait.delay \div 2]
    /\ UNCHANGED <<rsdelay, rs_attempts, rs_ret, rs_h_failures, rs_last,
                   rsslow, rs_stop_event, rsloop>>
    /\ UNCHANGED othersRS

\* The delay runs out: Event.wait returns the flag, which is not set.
RW_expire ==
    /\ rs_wait.status = "waiting"
    /\ rs_wait' = [rs_wait EXCEPT !.status = "returned",
                                  !.waited = rs_wait.delay,
                                  !.ret = Bool(~rs_stop_event)]
    /\ UNCHANGED <<rsdelay, rs_attempts, rs_ret, rs_h_failures, rs_last,
                   rsslow, rs_stop_event, rsloop>>
    /\ UNCHANGED othersRS

\* Another thread calls stop_event.set(): a blocked Event.wait is woken and
\* returns True.
RW_set ==
    /\ rs_stop_event' = TRUE
    /\ rs_wait' = IF rs_wait.status = "waiting"
                   THEN [rs_wait EXCEPT !.status = "returned",
                                        !.set_during = TRUE,
                                        !.ret = Bool(~TRUE)]
                   ELSE rs_wait
    /\ UNCHANGED <<rsdelay, rs_attempts, rs_ret, rs_h_failures, rs_last,
                   rsslow, rsloop>>
    /\ UNCHANGED othersRS

\* stop_event.clear(), between two waits
RW_clear ==
    /\ rs_wait.status # "waiting"
    /\ rs_stop_event
    /\ rs_stop_event' = FALSE
    /\ UNCHANGED <<rsdelay, rs_attempts, rs_ret, rs_h_failures, rs_last,
                   rsslow, rs_wait, rsloop>>
    /\ UNCHANGED othersRS

\* The documented loop:  while strategy.should_retry():
\*                           strategy.wait(stop_event)
\*                           if try_connect():
\*                               strategy.record_success(); break
\*                           strategy.record_failure()
\* The control loop enters it.
RL_begin ==
    /\ LoopIdle
    /\ rl_pc' = "test"
    /\ rl_failed' = 0
    /\ UNCHANGED <<rsdelay, rs_attempts, rs_ret, rs_h_failures, rs_last,
                   rsslow, rswait>>
    /\ UNCHANGED othersRS

\* while strategy.should_retry():
RL_should_retry ==
    /\ rl_pc = "test"
    /\ rl_pc' = IF ShouldRetry THEN "wait" ELSE "done"
    /\ rs_last' = Call("should_retry", Bool(ShouldRetry))
    /\ UNCHANGED <<rsdelay, rs_attempts, rs_ret, rs_h_failures, rsslow,
                   rswait, rl_failed>>
    /\ UNCHANGED othersRS

\* strategy.wait(stop_event); its result is not looked at, and the
\* OverflowError of get_delay() ends the loop.
RL_wait ==
    /\ rl_pc = "wait"
    /\ rl_pc' = IF PowerOverflows(rs_attempts) THEN "raised" ELSE "connect"
    /\ UNCHANGED <<rsdelay, rs_attempts, rs_ret, rs_h_failures, rs_last,
                   rsslow, rswait, rl_failed>>
    /\ UNCHANGED othersRS

\* if try_connect(): record_success(); break  -- else record_failure()
RL_try_connect(connected) ==
    /\ rl_pc = "connect"
    /\ rs_ret' = NoDelay
    /\ IF connected
       THEN /\ rs_recovery_start' =
                   RecoveryStart(rs_attempts, rs_recovery_start, rs_clock)
            /\ rs_attempts' = 0
            /\ rs_h_failures' = 0
            /\ rs_h_recovered' =
                   IF rs_h_failures > 0 THEN rs_clock ELSE rs_h_recovered
            /\ rs_last' = Call("record_success", "none")
            /\ rs_factor' = NoFactor
            /\ rl_pc' = "done"
            /\ UNCHANGED rl_failed
       ELSE /\ rs_attempts' = rs_attempts + 1
            /\ rs_h_failures' = rs_h_failures + 1
            /\ rs_last' = Call("record_failure", "none")
            /\ rl_pc' = "test"
            /\ rl_failed' = rl_failed + 1
            /\ UNCHANGED <<rs_recovery_start, rs_h_recovered, rs_factor>>
    /\ UNCHANGED <<rsdelay, rs_max_attempts, rs_slow_start_duration, rs_clock,
                   rswait>>
    /\ UNCHANGED othersRS

\* get_delay(attempt); a negative attempt stands for the internal counter.
RS_get_delay(attempt, u) ==
    LET n == IF attempt < 0 THEN rs_attempts ELSE attempt
    IN  /\ rs_ret' = [attempt |-> n, draw |-> u,
                      raised |-> GetDelay(n, u).raised,
                      value |-> GetDelay(n, u).value]
        /\ UNCHANGED <<rsdelay, rs_attempts, rs_h_failures, rs_last, rsslow,
                       rswait, rsloop>>
        /\ UNCHANGED othersRS

\* ------------------------------------------------------------------------
\* Specifications
\* ------------------------------------------------------------------------
NextCB ==
    \/ Tick
    \/ CB_state
    \/ CB_allow_request
    \/ CB_record_success
    \/ CB_record_failure
    \/ CB_reset

InitSpecCB == InitCB /\ IdleTQ /\ IdleHP /\ IdleBH /\ IdleRS

SpecCB == InitSpecCB /\ [][NextCB]_vars

NextTQ ==
    \/ TQ_start
    \/ TQ_stop
    \/ TQ_stop_join
    \/ TQ_enqueue
    \/ \E w \in Threads : TQ_drain_loop(w)
    \/ \E w \in Threads : TQ_drain_get(w)
    \/ \E w \in Threads : TQ_drain_delay(w)
    \/ \E w \in Threads : TQ_drain_send(w)
    \/ \E w \in Threads : TQ_drain_sent(w)

InitSpecTQ == IdleCB /\ InitTQ /\ IdleHP /\ IdleBH /\ IdleRS

\* The TxQueue with its threads scheduled: a drain thread that can take a
\* step eventually takes it, a send_fn or delay function that was called
\* eventually returns or raises, and the join of stop(timeout) returns.
FairTQ ==
    /\ WF_vars(TQ_stop_join)
    /\ \A w \in Threads :
          /\ WF_vars(TQ_drain_loop(w))
          /\ WF_vars(TQ_drain_get(w))
          /\ WF_vars(TQ_drain_delay(w))
          /\ WF_vars(TQ_drain_send(w))
          /\ WF_vars(TQ_drain_sent(w))

SpecTQF == InitSpecTQ /\ [][NextTQ]_vars /\ FairTQ

SpecTQ == InitSpecTQ /\ [][NextTQ]_vars

\* The TxQueue while it is left running: start() and enqueue() calls and the
\* steps of the drain threads, no stop().
NextTQD ==
    \/ TQ_start
    \/ TQ_enqueue
    \/ \E w \in Threads : TQ_drain_loop(w)
    \/ \E w \in Threads : TQ_drain_get(w)
    \/ \E w \in Threads : TQ_drain_delay(w)
    \/ \E w \in Threads : TQ_drain_send(w)
    \/ \E w \in Threads : TQ_drain_sent(w)

SpecTQD == InitSpecTQ /\ [][NextTQD]_vars /\ FairTQ

NextHP ==
    \/ \E s \in Services : HP_register_check(s)
    \/ \E s \in Services, outcome \in {"pass", "fail", "raise"} : HP_run_check(s, outcome)

InitSpecHP == IdleCB /\ IdleTQ /\ InitHP /\ IdleBH /\ IdleRS

SpecHP == InitSpecHP /\ [][NextHP]_vars

\* The services a caller of the probe registers in the specifications with
\* queries and callbacks; the other name is never registered.
Probed == {"meshtastic"}

NextHPQ ==
    \/ \E s \in Probed : HP_register_check(s)
    \/ \E s \in Services, outcome \in {"pass", "fail", "raise"} : HP_run_check(s, outcome)
    \/ \E s \in Services : HP_is_healthy(s)

SpecHPQ == InitSpecHP /\ [][NextHPQ]_vars

NextHPC ==
    \/ \E s \in Probed : HP_register_check(s)
    \/ \E s \in Services, outcome \in {"pass", "fail", "raise"} : HP_run_check(s, outcome)
    \/ \E event \in {"on_healthy", "on_unhealthy", "on_state_change", "on_other"} :
           HP_register_callback(event)

SpecHPC == InitSpecHP /\ [][NextHPC]_vars

NextBH ==
    \/ BH_tick
    \/ \E service \in BhServices, event \in ConnEvents :
           BH_record_connection_event(service, event)

InitSpecBH == IdleCB /\ IdleTQ /\ IdleHP /\ InitBH /\ IdleRS

SpecBH == InitSpecBH /\ [][NextBH]_vars

\* The link whose errors are recorded in the specifications with errors.
Failing == {"meshtastic"}

NextBHE ==
    \/ \E service \in Failing : BH_record_error(service)

InitSpecBHE == IdleCB /\ IdleTQ /\ IdleHP /\ InitBHE /\ IdleRS

SpecBHE == InitSpecBHE /\ [][NextBHE]_vars

NextBHS ==
    \/ BH_window_passes
    \/ \E service \in BhServices, event \in {"connected", "disconnected"} :
           BH_record_connection_event(service, event)
    \/ \E service \in Failing : BH_record_error(service)

SpecBHS == InitSpecBH /\ [][NextBHS]_vars

NextRS ==
    \/ RS_record_failure
    \/ \E attempt \in -1..MaxExplicit, u \in Draws : RS_get_delay(attempt, u)

InitSpecRS == IdleCB /\ IdleTQ /\ IdleHP /\ IdleBH /\ InitRS

SpecRS == InitSpecRS /\ [][NextRS]_vars

\* The MeshtasticInterface after __init__: connected or not, with the
\* features switched on or off, its breaker and its queue as constructed.
InitMI ==
    /\ now = 0
    /\ failure_threshold = DEFAULT_FAILURE_THRESHOLD
    /\ recovery_timeout = DEFAULT_RECOVERY_TICKS
    /\ cb_state = CLOSED
    /\ cb_failures = 0
    /\ cb_opened_at = 0
    /\ cb_op = "init"
    /\ cb_read = "none"
    /\ cb_ret = "none"
    /\ cb_allow = "none"
    /\ cb_run = 0
    /\ cb_pre = CLOSED
    /\ cb_pre_failures = 0
    /\ cb_call_t = 0
    /\ cb_tripped = FALSE
    /\ cb_probes = 0
    /\ IdleCC
    /\ tq_maxsize = MI_QUEUE_MAXSIZE
    /\ tq_delay_fn = FALSE
    /\ tq_queue = <<>>
    /\ tq_dropped = 0
    /\ tq_stop = FALSE
    /\ tq_thread = 0
    /\ tq_created = 0
    /\ tq_pc = [w \in Threads |-> "none"]
    /\ tq_data = [w \in Threads |-> 0]
    /\ tq_ctl = "idle"
    /\ tq_next = 1
    /\ tq_ret = "none"
    /\ tq_accepted = <<>>
    /\ tq_sent = <<>>
    /\ tq_raised = {}
    /\ mi_online \in BOOLEAN
    /\ mi_use_cb \in BOOLEAN
    /\ mi_use_queue \in BOOLEAN
    /\ FreshMI

NextMI ==
    \/ MI_tick
    \/ \E data \in PacketSizes, outcome \in SendOutcomes :
          MI_process_incoming(data, outcome)
    \/ \E outcome \in SendOutcomes : MI_drain(outcome)

InitSpecMI == InitMI /\ IdleHP /\ IdleBH /\ IdleRS

SpecMI == InitSpecMI /\ [][NextMI]_vars

\* The CircuitBreaker shared by threads.
NextCC ==
    \/ Tick
    \/ \E t \in CbThreads, op \in CbCalls : CC_call(t, op)
    \/ \E t \in CbThreads :
          \/ CC_acquire(t)
          \/ CC_load(t)
          \/ CC_store(t)
          \/ CC_trip(t)
          \/ CC_zero(t)
          \/ CC_close(t)
          \/ CC_unstamp(t)
          \/ CC_read(t)
          \/ CC_release(t)

SpecCC == InitSpecCB /\ [][NextCC]_vars

\* The ReconnectStrategy of one link: the reconnect loop, the calls of the
\* control loop around it and the slow start after a recovery.
InitRL ==
    /\ rs_initial_delay = 2000
    /\ rs_max_delay = 60000
    /\ rs_multiplier = 2
    /\ rs_jitter = 15
    /\ rs_max_attempts \in 0..MaxRetries
    /\ rs_slow_start_duration \in 0..MaxSlowStart
    /\ FreshRS

NextRL ==
    \/ RS_tick
    \/ RS_record_failure
    \/ RS_should_retry
    \/ RS_record_success
    \/ RS_reset
    \/ RS_throughput_factor
    \/ RL_begin
    \/ RL_should_retry
    \/ RL_wait
    \/ \E connected \in BOOLEAN : RL_try_connect(connected)

InitSpecRL == IdleCB /\ IdleTQ /\ IdleHP /\ IdleBH /\ InitRL

SpecRL == InitSpecRL /\ [][NextRL]_vars

\* The ReconnectStrategy of a link that goes on retrying, its waits and the
\* stop event.
InitRW ==
    /\ rs_initial_delay = 2000
    /\ rs_max_delay = 60000
    /\ rs_multiplier = 2
    /\ rs_jitter = 15
    /\ rs_max_attempts = MaxAttempt
    /\ rs_slow_start_duration = DEFAULT_SLOW_START
    /\ FreshRS

NextRW ==
    \/ RS_record_failure
    \/ \E timeout \in Timeouts, u \in Draws : RW_wait(timeout, u)
    \/ RW_pass
    \/ RW_expire
    \/ RW_set
    \/ RW_clear

InitSpecRW == IdleCB /\ IdleTQ /\ IdleHP /\ IdleBH /\ InitRW

SpecRW == InitSpecRW /\ [][NextRW]_vars

\* The ReconnectStrategy asked for the delays of given attempt numbers.
NextRSD == \E attempt \in 0..MaxExplicit, u \in Draws : RS_get_delay(attempt, u)

SpecRSD == InitSpecRS /\ [][NextRSD]_vars

\* The probe with its background loop: a probe constructed with the
\* defaults, each service registered once at any time, start() and stop()
\* in any order, check_now from the application.
InitPL ==
    /\ hp_fails = DEFAULT_FAILS
    /\ hp_passes = DEFAULT_PASSES
    /\ hp_checks = {}
    /\ hp_state = NoServices
    /\ hp_cpasses = NoServices
    /\ hp_cfails = NoServices
    /\ hp_total_checks = NoServices
    /\ hp_total_passes = NoServices
    /\ hp_total_fails = NoServices
    /\ hp_result = NoResult
    /\ hp_hist = NoServices
    /\ hp_query = NoQuery
    /\ hp_callbacks = NoCallbacks
    /\ hp_cb_calls = 0
    /\ hp_fired = <<>>
    /\ IdlePL

NextPL ==
    \/ PL_start
    \/ PL_stop
    \/ PL_stop_join
    \/ \E s \in Services : PL_register_check(s)
    \/ \E w \in PlThreads : PL_loop_test(w)
    \/ \E w \in PlThreads, outcome \in {"ok", "error"} : PL_cycle(w, outcome)
    \/ \E w \in PlThreads : PL_for(w)
    \/ \E w \in PlThreads, outcome \in CheckOutcomes : PL_check_return(w, outcome)
    \/ \E w \in PlThreads : PL_wait(w)
    \/ \E w \in PlThreads : PL_errwait(w)
    \/ \E s \in Services : PL_check_now(s)
    \/ \E outcome \in CheckOutcomes : PL_check_now_return(outcome)

\* The loop alone: no check_now from the application.
NextPLF ==
    \/ PL_start
    \/ PL_stop
    \/ PL_stop_join
    \/ \E s \in Services : PL_register_check(s)
    \/ \E w \in PlThreads : PL_loop_test(w)
    \/ \E w \in PlThreads, outcome \in {"ok", "error"} : PL_cycle(w, outcome)
    \/ \E w \in PlThreads : PL_for(w)
    \/ \E w \in PlThreads, outcome \in CheckOutcomes : PL_check_return(w, outcome)
    \/ \E w \in PlThreads : PL_wait(w)
    \/ \E w \in PlThreads : PL_errwait(w)

InitSpecPL == IdleCB /\ IdleTQ /\ InitPL /\ IdleBH /\ IdleRS

SpecPL == InitSpecPL /\ [][NextPL]_vars

\* A started thread runs: each step of _probe_loop is taken in the end -
\* check_fn returns or raises, and the waits end with the interval.
FairPL ==
    \A w \in PlThreads :
        /\ WF_vars(PL_loop_test(w))
        /\ WF_vars(\E outcome \in {"ok", "error"} : PL_cycle(w, outcome))
        /\ WF_vars(PL_for(w))
        /\ WF_vars(\E outcome \in CheckOutcomes : PL_check_return(w, outcome))
        /\ WF_vars(PL_wait(w))
        /\ WF_vars(PL_errwait(w))

SpecPLF == InitSpecPL /\ [][NextPLF]_vars /\ FairPL

\* ------------------------------------------------------------------------
\* Properties of the CircuitBreaker (checked under SpecCB)
\* ------------------------------------------------------------------------

\* What a read of the breaker would return at the current clock value.
CB_reads == StateRead(cb_state, cb_opened_at, now)

\* C1: after f consecutive record_failure() calls from a fresh CLOSED breaker
\* the state is CLOSED while f < failure_threshold, and at f = failure_threshold
\* it is OPEN and allow_request() is false (until the recovery timeout elapses).
C1_TripsAtThreshold ==
    /\ (cb_run < failure_threshold =>
            /\ cb_state = CLOSED
            /\ CB_reads = CLOSED
            /\ (cb_read # "none" => cb_ret = CLOSED)
            /\ (cb_read = "allow_request" => cb_allow = "True"))
    /\ (cb_run = failure_threshold /\ now - cb_call_t < recovery_timeout =>
            /\ cb_state = OPEN
            /\ CB_reads = OPEN
            /\ (cb_read # "none" => cb_ret = OPEN)
            /\ (cb_read = "allow_request" => cb_allow = "False"))

C1_Witness ==
    /\ failure_threshold = 3
    /\ cb_run = 3
    /\ cb_op = "record_failure"
    /\ cb_pre = CLOSED
    /\ cb_read = "allow_request"
    /\ cb_allow = "False"

\* C2: allow_request() is true iff the state it reads is CLOSED or HALF_OPEN;
\* a breaker that opened at time t and saw no other call since reads OPEN at
\* every time before t + recovery_timeout and HALF_OPEN from then on.
C2_GateOverTime ==
    [][ (cb_read' # "none" /\ now' = now) =>
          /\ (cb_read' = "allow_request" =>
                 (cb_allow' = "True") = (cb_ret' \in {CLOSED, HALF_OPEN}))
          /\ (cb_tripped =>
                 cb_ret' = IF now - cb_call_t < recovery_timeout
                           THEN OPEN ELSE HALF_OPEN) ]_vars

C2_Witness ==
    /\ cb_tripped
    /\ cb_pre = CLOSED
    /\ cb_read = "allow_request"
    /\ cb_ret = HALF_OPEN
    /\ cb_allow = "True"
    /\ now = cb_call_t + recovery_timeout

\* C3: one record_failure() on a breaker that reads HALF_OPEN puts it back to
\* OPEN at once, whatever failure_threshold is, and the recovery timeout runs
\* again from the moment of that call.
C3_ProbeFailureReopens ==
    (cb_op = "record_failure" /\ cb_pre = HALF_OPEN) =>
        /\ cb_opened_at = cb_call_t
        /\ CB_reads = IF now - cb_call_t < recovery_timeout THEN OPEN ELSE HALF_OPEN
        /\ (now - cb_call_t < recovery_timeout =>
                /\ cb_state = OPEN
                /\ (cb_read # "none" => cb_ret = OPEN)
                /\ (cb_read = "allow_request" => cb_allow = "False"))

C3_Witness ==
    /\ cb_op = "record_failure"
    /\ cb_pre = HALF_OPEN
    /\ failure_threshold = 3
    /\ cb_read = "state"
    /\ cb_ret = OPEN
    /\ now > cb_call_t

\* C4: record_success() and reset(), from any state and any failure count,
\* leave the breaker CLOSED with failures = 0, and the next trip then needs
\* failure_threshold fresh consecutive failures.
C4_SuccessAndResetClose ==
    /\ (cb_op \in {"record_success", "reset"} =>
            /\ cb_state = CLOSED
            /\ cb_failures = 0
            /\ (cb_read # "none" => cb_ret = CLOSED))
    /\ (cb_op = "record_failure" /\ cb_run < failure_threshold =>
            /\ cb_state = CLOSED
            /\ cb_failures = cb_run)

C4_Witness ==
    /\ cb_op = "record_success"
    /\ failure_threshold = 3
    /\ cb_pre = HALF_OPEN
    /\ cb_pre_failures = 3
    /\ cb_state = CLOSED
    /\ cb_failures = 0

\* ------------------------------------------------------------------------
\* Properties of the TxQueue (checked under SpecTQ)
\* ------------------------------------------------------------------------
IsPrefix(a, b) ==
    /\ Len(a) <= Len(b)
    /\ \A i \in 1..Len(a) : a[i] = b[i]

NoDuplicates(a) == \A i, j \in 1..Len(a) : a[i] = a[j] => i = j

InQueue(x, q) == \E i \in 1..Len(q) : q[i] = x

\* C5: enqueue() with fewer than maxsize items queued appends the payload at
\* the tail, returns True and leaves dropped alone; with maxsize items queued
\* it returns False, adds exactly 1 to dropped and leaves the queue as it was.
C5_EnqueueBackpressure ==
    [][ tq_next' # tq_next =>
          IF Len(tq_queue) < tq_maxsize
          THEN /\ tq_queue' = Append(tq_queue, tq_next)
               /\ tq_ret' = "True"
               /\ tq_dropped' = tq_dropped
          ELSE /\ tq_queue' = tq_queue
               /\ tq_ret' = "False"
               /\ tq_dropped' = tq_dropped + 1 ]_vars

C5_Witness ==
    /\ tq_maxsize = 2
    /\ tq_ret = "False"
    /\ tq_dropped = 1
    /\ tq_queue = <<1, 2>>
    /\ tq_next = 4

\* C6: at every moment the payloads handed to send_fn, in order, are a prefix
\* of the payloads accepted by enqueue(), in order.
C6_SentIsPrefixOfAccepted == IsPrefix(tq_sent, tq_accepted)

\* C7: when send_fn raises for a payload, the drain thread that called it goes
\* on with its loop, the queue behind that payload is untouched, and the
\* payload is neither queued again nor handed to send_fn a second time.
C7_SendErrorIsSwallowed ==
    [][ /\ (tq_raised' # tq_raised =>
               /\ \E w \in Threads :
                     /\ tq_pc[w] = "in_send"
                     /\ tq_raised' = tq_raised \cup {tq_data[w]}
                     /\ tq_pc'[w] = "loop"
                     /\ tq_data'[w] = 0
               /\ tq_queue' = tq_queue
               /\ tq_sent' = tq_sent)
        /\ NoDuplicates(tq_sent')
        /\ \A x \in tq_raised' :
               /\ ~InQueue(x, tq_queue')
               /\ \A w \in Threads : tq_data'[w] # x ]_vars

C7_Witness ==
    /\ tq_created = 1
    /\ 1 \in tq_raised
    /\ tq_sent = <<1, 2>>
    /\ tq_pc[1] = "in_send"

\* ------------------------------------------------------------------------
\* Properties of the ActiveHealthProbe (checked under SpecHP)
\* ------------------------------------------------------------------------
RECURSIVE Trailing(_, _)
\* How many entries equal to b end the sequence h.
Trailing(h, b) ==
    IF h = <<>> THEN 0
    ELSE IF h[Len(h)] # b THEN 0
    ELSE 1 + Trailing(SubSeq(h, 1, Len(h) - 1), b)

\* This step ran a check on the registered service s.
Checked(s) ==
    /\ s \in hp_checks
    /\ s \in hp_checks'
    /\ Len(hp_hist'[s]) = Len(hp_hist[s]) + 1

\* C8: a service becomes HEALTHY only at a check that brings the run of
\* consecutive passes to exactly passes; while UNKNOWN, a pass that leaves the
\* run shorter than passes leaves it UNKNOWN; outside HEALTHY the probe's
\* count is the length of that run, so a failure starts it again.
C8_HealthyNeedsPasses ==
    [][ \A s \in Services :
          /\ (s \in hp_checks' /\ hp_state'[s] = HEALTHY
                 /\ (s \notin hp_checks \/ hp_state[s] # HEALTHY) =>
                    /\ Checked(s)
                    /\ Trailing(hp_hist'[s], TRUE) = hp_passes)
          /\ (Checked(s) /\ hp_state[s] = UNKNOWN
                 /\ Trailing(hp_hist'[s], TRUE) \in 1..(hp_passes - 1) =>
                    hp_state'[s] = UNKNOWN)
          /\ (s \in hp_checks' /\ hp_state'[s] # HEALTHY =>
                    hp_cpasses'[s] = Trailing(hp_hist'[s], TRUE)) ]_vars

C8_Witness ==
    \E s \in Services :
        /\ s \in hp_checks
        /\ hp_passes = 2
        /\ hp_hist[s] = <<TRUE, FALSE, TRUE, TRUE>>
        /\ hp_state[s] = HEALTHY

\* C9: a HEALTHY service becomes UNHEALTHY exactly at the check that is its
\* fails-th consecutive failure; a shorter run of failures leaves it HEALTHY,
\* and a passing check sets the failure count back to zero.
C9_UnhealthyNeedsFails ==
    [][ \A s \in Services :
          (Checked(s) /\ hp_state[s] = HEALTHY) =>
             /\ Trailing(hp_hist[s], FALSE) < hp_fails
             /\ hp_cfails[s] = Trailing(hp_hist[s], FALSE)
             /\ hp_state'[s] = IF Trailing(hp_hist'[s], FALSE) = hp_fails
                               THEN UNHEALTHY ELSE HEALTHY
             /\ (Trailing(hp_hist'[s], FALSE) = 0 => hp_cfails'[s] = 0) ]_vars

C9_Witness ==
    \E s \in Services :
        /\ s \in hp_checks
        /\ hp_fails = 2
        /\ hp_passes = 1
        /\ hp_hist[s] = <<TRUE, FALSE, TRUE, FALSE, FALSE>>
        /\ hp_state[s] = UNHEALTHY

\* C10, as claimed: one passing check on an UNHEALTHY service moves it to
\* RECOVERING, whatever passes is.
C10_PassWhileUnhealthyRecovers ==
    [][ \A s \in Services :
          (Checked(s) /\ hp_state[s] = UNHEALTHY
              /\ Trailing(hp_hist'[s], TRUE) = 1) =>
             hp_state'[s] = RECOVERING ]_vars

\* C10, amended: one passing check on an UNHEALTHY service moves it to
\* RECOVERING when passes >= 2; when passes = 1 that one pass already is the
\* required run and the service becomes HEALTHY directly.
C10_PassWhileUnhealthy ==
    [][ \A s \in Services :
          (Checked(s) /\ hp_state[s] = UNHEALTHY
              /\ Trailing(hp_hist'[s], TRUE) = 1) =>
             hp_state'[s] = IF hp_passes >= 2 THEN RECOVERING ELSE HEALTHY ]_vars

C10_Witness ==
    \E s \in Services :
        /\ s \in hp_checks
        /\ hp_passes = 3
        /\ hp_fails = 2
        /\ hp_hist[s] = <<FALSE, FALSE, TRUE>>
        /\ hp_state[s] = RECOVERING

\* C11: a failing check on a RECOVERING service returns it to UNHEALTHY at
\* once, whatever the failure count; a passing check on a RECOVERING service
\* makes it HEALTHY exactly when the run of consecutive passes, the one that
\* left UNHEALTHY included, reaches passes, and leaves it RECOVERING before
\* that; RECOVERING is entered only by a check on an UNHEALTHY service.
C11_RecoveringHysteresis ==
    [][ \A s \in Services :
          /\ (Checked(s) /\ hp_state[s] = RECOVERING =>
                 /\ Trailing(hp_hist[s], TRUE) \in 1..(hp_passes - 1)
                 /\ hp_state'[s] =
                       IF Trailing(hp_hist'[s], TRUE) = 0 THEN UNHEALTHY
                       ELSE IF Trailing(hp_hist'[s], TRUE) = hp_passes THEN HEALTHY
                       ELSE RECOVERING)
          /\ (s \in hp_checks' /\ hp_state'[s] = RECOVERING
                 /\ (s \notin hp_checks \/ hp_state[s] # RECOVERING) =>
                    /\ Checked(s)
                    /\ hp_state[s] = UNHEALTHY) ]_vars

C11_Witness ==
    \E s \in Services :
        /\ s \in hp_checks
        /\ hp_passes = 3
        /\ hp_fails = 2
        /\ hp_hist[s] = <<FALSE, FALSE, TRUE, FALSE>>
        /\ hp_state[s] = UNHEALTHY

\* C13: a check whose check_fn raised returns a result to its caller, with
\* healthy False, and is applied as a failing check is: the history gains a
\* failure, total_checks and total_fails grow by one, total_passes stays,
\* consecutive_passes is zero, and consecutive_fails and the state are what
\* one more failure makes them (the count restarts when the failure takes
\* the service to UNHEALTHY).
C13_ExceptionIsFailure ==
    [][ \A s \in Services :
          (Checked(s) /\ hp_result'.reason = "check_exception") =>
             /\ hp_result'.svc = s
             /\ hp_result'.healthy = FALSE
             /\ hp_hist'[s] = Append(hp_hist[s], FALSE)
             /\ hp_total_checks'[s] = hp_total_checks[s] + 1
             /\ hp_total_fails'[s] = hp_total_fails[s] + 1
             /\ hp_total_passes'[s] = hp_total_passes[s]
             /\ hp_cpasses'[s] = 0
             /\ hp_cfails'[s] =
                   IF hp_state[s] # UNHEALTHY /\ hp_cfails[s] + 1 >= hp_fails
                   THEN 0 ELSE hp_cfails[s] + 1
             /\ hp_state'[s] =
                   IF hp_state[s] = UNHEALTHY THEN UNHEALTHY
                   ELSE IF hp_cfails[s] + 1 >= hp_fails THEN UNHEALTHY
                   ELSE IF hp_state[s] = RECOVERING THEN UNHEALTHY
                   ELSE hp_state[s] ]_vars

C13_Witness ==
    \E s \in Services :
        /\ s \in hp_checks
        /\ hp_fails = 2
        /\ hp_hist[s] = <<TRUE, FALSE, FALSE>>
        /\ hp_result = [svc |-> s, healthy |-> FALSE, reason |-> "check_exception"]
        /\ hp_state[s] = UNHEALTHY
        /\ hp_total_fails[s] = 2

\* ------------------------------------------------------------------------
\* Queries of the ActiveHealthProbe (checked under SpecHPQ)
\* ------------------------------------------------------------------------

\* C12: is_healthy(name) returns True exactly when the service is registered
\* and its state is HEALTHY: it returns False for a service that is UNKNOWN,
\* RECOVERING or UNHEALTHY and for a name that was never registered.
C12_IsHealthyIffHealthy ==
    hp_query.svc # "none" =>
        /\ hp_query.ret \in {"True", "False"}
        /\ (hp_query.ret = "True") <=>
              (hp_query.svc \in hp_checks /\ hp_state[hp_query.svc] = HEALTHY)
        /\ (hp_query.svc \notin hp_checks => hp_query.ret = "False")
        /\ (hp_query.svc \in hp_checks
               /\ hp_state[hp_query.svc] \in {UNKNOWN, RECOVERING, UNHEALTHY} =>
                  hp_query.ret = "False")

C12_Witness ==
    /\ hp_query = [svc |-> "meshtastic", ret |-> "False"]
    /\ "meshtastic" \in hp_checks
    /\ hp_state["meshtastic"] = RECOVERING

\* ------------------------------------------------------------------------
\* Callbacks of the ActiveHealthProbe (checked under SpecHPC)
\* ------------------------------------------------------------------------

\* The callables registered for an event.
Registered(ev) == {hp_callbacks[ev][i] : i \in 1..Len(hp_callbacks[ev])}

\* How often the invocations inv call callable c for event ev.
Fired(inv, ev, c) ==
    Cardinality({i \in 1..Len(inv) : inv[i].event = ev /\ inv[i].cb = c})

\* C14: a check that changes the state of its service invokes every callable
\* registered for on_state_change exactly once, every callable registered for
\* on_healthy exactly once when the new state is HEALTHY and not at all
\* otherwise, and likewise on_unhealthy for UNHEALTHY, each with the service
\* and the new state, whichever of them raise; a check that leaves the state
\* as it was invokes nothing.
C14_CallbacksOnChange ==
    [][ \A s \in Services :
          /\ (Checked(s) /\ hp_state'[s] = hp_state[s] => hp_fired' = <<>>)
          /\ (Checked(s) /\ hp_state'[s] # hp_state[s] =>
                /\ \A c \in Registered("on_state_change") :
                       Fired(hp_fired', "on_state_change", c) = 1
                /\ \A c \in Registered("on_healthy") :
                       Fired(hp_fired', "on_healthy", c) =
                          IF hp_state'[s] = HEALTHY THEN 1 ELSE 0
                /\ \A c \in Registered("on_unhealthy") :
                       Fired(hp_fired', "on_unhealthy", c) =
                          IF hp_state'[s] = UNHEALTHY THEN 1 ELSE 0
                /\ \A i \in 1..Len(hp_fired') :
                       /\ hp_fired'[i].svc = s
                       /\ hp_fired'[i].state = hp_state'[s]
                       /\ hp_fired'[i].event \in DOMAIN hp_callbacks
                       /\ hp_fired'[i].cb \in Registered(hp_fired'[i].event)) ]_vars

C14_Witness ==
    /\ hp_callbacks["on_state_change"] = <<1>>
    /\ hp_callbacks["on_unhealthy"] = <<2>>
    /\ "meshtastic" \in hp_checks
    /\ hp_state["meshtastic"] = UNHEALTHY
    /\ hp_fired = << [event |-> "on_state_change", cb |-> 1, svc |-> "meshtastic",
                      state |-> UNHEALTHY, raised |-> TRUE],
                     [event |-> "on_unhealthy", cb |-> 2, svc |-> "meshtastic",
                      state |-> UNHEALTHY, raised |-> FALSE] >>

\* ------------------------------------------------------------------------
\* Properties of the BridgeHealthMonitor's connection tracking (checked
\* under SpecBH)
\* ------------------------------------------------------------------------

\* This step is a record_connection_event call with this service and event.
Recorded(service, event) ==
    /\ bh_connection_events' = bh_connection_events + 1
    /\ bh_event'.service = service
    /\ bh_event'.event = event

\* The service counts as connected before the step.
WasConnected(service) ==
    service \in DOMAIN bh_connected /\ bh_connected[service]

\* C17: reconnect_count of a service grows by one at every 'connected' event
\* that finds the service not connected (a name seen for the first time
\* included) and at no other step, so it counts those events; that event
\* also stamps last_connected. A 'connected' event for a connected service
\* changes neither, and a 'retry' event changes no flag, stamp or counter.
C17_ReconnectCount ==
    [][ \A s \in BhServices :
          /\ (Recorded(s, "connected") /\ ~WasConnected(s) =>
                /\ bh_connection_count'[s] = Get(bh_connection_count, s, 0) + 1
                /\ bh_last_connected'[s] = bh_now
                /\ bh_connected'[s])
          /\ (Recorded(s, "connected") /\ WasConnected(s) =>
                /\ bh_connection_count' = bh_connection_count
                /\ bh_last_connected' = bh_last_connected
                /\ bh_connected' = bh_connected)
          /\ (Recorded(s, "retry") =>
                UNCHANGED <<bh_connected, bh_last_connected, bh_last_disconnected,
                            bh_connection_count, bh_uptime_seconds>>)
          /\ (~(Recorded(s, "connected") /\ ~WasConnected(s)) =>
                Get(bh_connection_count', s, 0) = Get(bh_connection_count, s, 0)) ]_vars

C17_Witness ==
    /\ bh_event = [timestamp |-> 2 * TickSeconds, service |-> "meshtastic",
                   event |-> "connected"]
    /\ bh_connection_events = 4
    /\ bh_connected["meshtastic"]
    /\ bh_connection_count["meshtastic"] = 2
    /\ bh_last_connected["meshtastic"] = TickSeconds

\* The connected span of a service that is still running, in seconds.
CurrentSpan(service) ==
    IF service \in DOMAIN bh_connected /\ bh_connected[service]
    THEN bh_now - bh_last_connected[service]
    ELSE 0

\* C18: uptime_seconds of a service grows only at a 'disconnected' or 'error'
\* event that finds the service connected, by the time since the 'connected'
\* event that began the span; the same events for a service that is not
\* connected, and every other step, leave it as it was; and always the
\* accumulated uptime plus the running span is at most the time since the
\* monitor was created.
C18_UptimeIsConnectedTime ==
    [][ \A s \in BhServices :
          /\ ((Recorded(s, "disconnected") \/ Recorded(s, "error")) /\ WasConnected(s) =>
                /\ s \in DOMAIN bh_last_connected
                /\ bh_uptime_seconds'[s] =
                      Get(bh_uptime_seconds, s, 0) + (bh_now - bh_last_connected[s])
                /\ ~bh_connected'[s])
          /\ (~((Recorded(s, "disconnected") \/ Recorded(s, "error")) /\ WasConnected(s)) =>
                Get(bh_uptime_seconds', s, 0) = Get(bh_uptime_seconds, s, 0))
          /\ Get(bh_uptime_seconds, s, 0) + CurrentSpan(s) <= bh_now - bh_start_time
          /\ Get(bh_uptime_seconds', s, 0) + CurrentSpan(s)' <= bh_now' - bh_start_time' ]_vars

C18_Witness ==
    /\ bh_now = 3 * TickSeconds
    /\ bh_connected["meshtastic"]
    /\ "meshtastic" \in DOMAIN bh_last_disconnected
    /\ bh_last_connected["meshtastic"] = 2 * TickSeconds
    /\ bh_last_disconnected["meshtastic"] = TickSeconds
    /\ bh_uptime_seconds["meshtastic"] = TickSeconds

\* ------------------------------------------------------------------------
\* Error classification of the BridgeHealthMonitor (checked under SpecBHE)
\* ------------------------------------------------------------------------

\* C19: record_error returns 'permanent' for an exception whose message has
\* a permanent signature, whatever else the message holds and whatever its
\* class; otherwise 'transient' for a transient signature or a class of the
\* OSError family; otherwise 'unknown'; and it appends to the error window
\* exactly one event, with that category, the service and the current time.
C19_ClassificationPrecedence ==
    [][ bh_error_events' # bh_error_events =>
          LET category ==
                  IF "Permission Denied" \in bh_error.msg THEN "permanent"
                  ELSE IF "Timed out" \in bh_error.msg THEN "transient"
                  ELSE IF bh_error.class \in {"TimeoutError", "BrokenPipeError",
                                              "PermissionError"} THEN "transient"
                  ELSE "unknown"
          IN  /\ bh_ret' = [op |-> "record_error", value |-> category]
              /\ Len(bh_error_events') = Len(bh_error_events) + 1
              /\ SubSeq(bh_error_events', 1, Len(bh_error_events)) = bh_error_events
              /\ bh_error_events'[Len(bh_error_events')].category = category
              /\ bh_error_events'[Len(bh_error_events')].timestamp = bh_now
              /\ bh_error_events'[Len(bh_error_events')].service \in Failing ]_vars

C19_Witness ==
    /\ bh_error = [class |-> "TimeoutError", msg |-> {"Permission Denied", "Timed out"}]
    /\ bh_ret = [op |-> "record_error", value |-> "permanent"]
    /\ Len(bh_error_events) = 2
    /\ bh_error_events[2].category = "permanent"

\* ------------------------------------------------------------------------
\* Status of the BridgeHealthMonitor (checked under SpecBHS)
\* ------------------------------------------------------------------------

\* The services whose last 'connected', 'disconnected' or 'error' event was
\* 'connected'.
Up == {s \in DOMAIN bh_h_conn : bh_h_conn[s] = "connected"}

\* The services the monitor has a connection flag for: the two it starts
\* with and every name that received such an event.
Tracked == BaseServices \cup DOMAIN bh_h_conn

\* How many record_error calls were made in the last seconds.
RecordedWithin(seconds) ==
    Cardinality({i \in 1..Len(bh_h_errors) : bh_now - bh_h_errors[i] <= seconds})

C20_DelayWithinJitter ==
    rs_ret.raised # "no call" =>
        /\ rs_ret.raised = "none"
        /\ rs_ret.value * 100 >= BaseDelay(rs_ret.attempt) * (100 - rs_jitter)
        /\ rs_ret.value * 100 <= BaseDelay(rs_ret.attempt) * (100 + rs_jitter)
        /\ rs_ret.value * 100 <= rs_max_delay * (100 + rs_jitter)
        /\ (rs_jitter = 0 => rs_ret.value = BaseDelay(rs_ret.attempt))


\* ------------------------------------------------------------------------
\* Order of the delays of two attempts (checked under SpecRSD)
\* ------------------------------------------------------------------------

\* initial_delay * multiplier ** attempt has not passed max_delay.
Uncapped(attempt) ==
    /\ Log2(rs_multiplier) * attempt <= EXACT_EXP
    /\ rs_initial_delay * Pow2(Log2(rs_multiplier) * attempt) <= rs_max_delay

\* The lowest delay of one attempt is not below the highest delay of the
\* attempt before it: multiplier * (1 - jitter) >= 1 + jitter.
JitterFits == rs_multiplier * (100 - rs_jitter) >= 100 + rs_jitter

\* A get_delay(n) call followed by a get_delay(m) call with n < m, both
\* returning, the base delay of m not past max_delay.
LaterAttempt ==
    /\ rs_ret.raised = "none"
    /\ rs_ret'.raised = "none"
    /\ rs_ret.attempt < rs_ret'.attempt
    /\ Uncapped(rs_ret'.attempt)

\* C21 as stated: for attempts n < m whose base delay has not passed
\* max_delay, get_delay(n) <= get_delay(m), for every configuration and
\* with jitter applied.
C21_MonotoneForEveryConfiguration ==
    [][LaterAttempt => rs_ret.value <= rs_ret'.value]_vars

\* C21 as amended: for attempts n < m whose base delay has not passed
\* max_delay, get_delay(n) <= get_delay(m) in every configuration with
\* multiplier * (1 - jitter) >= 1 + jitter, so with jitter = 0 for every
\* multiplier >= 1; with more jitter than that two delays may come out in
\* either order.
C21_MonotoneUpToCap ==
    [][(LaterAttempt /\ JitterFits) => rs_ret.value <= rs_ret'.value]_vars

\* The later attempt, not capped, was given the lowest delay its jitter
\* allows, in a configuration where the jitter fits.
C21_Witness ==
    /\ rs_ret.raised = "none"
    /\ rs_ret.attempt >= 1
    /\ Uncapped(rs_ret.attempt)
    /\ rs_jitter > 0
    /\ rs_ret.draw = -100
    /\ JitterFits
    /\ rs_ret.value < BaseDelay(rs_ret.attempt)


\* ------------------------------------------------------------------------
\* Retries and slow start of the ReconnectStrategy (checked under SpecRL)
\* ------------------------------------------------------------------------

\* C22: should_retry() returns true exactly when fewer than max_attempts
\* record_failure() calls were made since the last record_success()/reset();
\* so the reconnect loop enters its body only with fewer than max_attempts
\* failures behind it and makes at most max_attempts failed connection
\* attempts in one run.
C22_ShouldRetryBoundsTheLoop ==
    /\ rs_last.op = "should_retry" =>
           (rs_last.ret = "True" <=> rs_last.attempts < rs_max_attempts)
    /\ rl_failed <= rs_max_attempts
    /\ rl_pc \in {"wait", "connect"} => rl_failed < rs_max_attempts

\* The loop ended because max_attempts connection attempts in a row failed.
C22_Witness ==
    /\ rl_pc = "done"
    /\ rs_max_attempts > 0
    /\ rl_failed = rs_max_attempts
    /\ rs_last.op = "should_retry"
    /\ rs_last.ret = "False"

\* C23: record_success() always leaves attempts at 0; it stamps
\* recovery_start with the current time only if failures had been recorded
\* since the last success/reset, and otherwise leaves recovery_start as it
\* was; a strategy with no recovery behind it reports throughput factor 1.0.
C23_SuccessStartsWindowOnlyAfterFailure ==
    /\ rs_last.op = "record_success" =>
           /\ rs_attempts = 0
           /\ rs_last.attempts > 0 => rs_recovery_start = rs_last.at
           /\ rs_last.attempts = 0 => rs_recovery_start = rs_last.recovery_start
    /\ (rs_factor.at > 0 /\ rs_h_recovered = 0) => rs_factor.value = 1000

\* A success repeated while a slow-start window is running: the window is
\* left as it was.
C23_Witness ==
    /\ rs_last.op = "record_success"
    /\ rs_last.attempts = 0
    /\ rs_last.recovery_start > 0
    /\ rs_recovery_start = rs_last.recovery_start
    /\ rs_last.at > rs_recovery_start

\* What every throughput_factor() result satisfies, whatever
\* slow_start_duration is: within [0.1, 1.0]; 1.0 with no recovery since
\* construction or reset(); 1.0 once slow_start_duration has elapsed since
\* the last recovery.
FactorInRange ==
    rs_factor.at > 0 =>
        /\ rs_factor.value >= 100
        /\ rs_factor.value <= 1000
        /\ rs_h_recovered = 0 => rs_factor.value = 1000
        /\ (rs_h_recovered > 0
              /\ rs_factor.at - rs_h_recovered >= rs_slow_start_duration)
               => rs_factor.value = 1000

\* Two throughput_factor() calls with no recovery or reset between them:
\* the later result is not below the earlier one.
FactorRamps ==
    (rs_factor.at > 0 /\ rs_factor'.at > 0 /\ UNCHANGED rs_h_recovered)
        => rs_factor.value <= rs_factor'.value

\* throughput_factor() called at the instant of a recovered reconnect.
JustRecovered == rs_factor.at > 0 /\ rs_h_recovered = rs_factor.at

\* C24 as stated: throughput_factor() is always in [0.1, 1.0], 1.0 when no
\* slow-start window is active, below 0.2 immediately after a recovered
\* reconnect, non-decreasing within a window, exactly 1.0 once
\* slow_start_duration has elapsed, and 1.0 at once after reset().
C24_FactorBelowFifthAfterEveryRecovery ==
    [][/\ FactorInRange'
       /\ FactorRamps
       /\ JustRecovered' => rs_factor'.value < 200]_vars

\* C24 as amended: as stated, except that the factor is below 0.2
\* immediately after a recovered reconnect only when slow_start_duration
\* is positive; with slow_start_duration <= 0 slow start is switched off
\* and the factor is 1.0 also right after a recovery.
C24_ThroughputFactor ==
    [][/\ FactorInRange'
       /\ FactorRamps
       /\ (JustRecovered' /\ rs_slow_start_duration > 0)
              => rs_factor'.value < 200
       /\ (JustRecovered' /\ rs_slow_start_duration <= 0)
              => rs_factor'.value = 1000]_vars

\* A factor read part of the way up the ramp.
C24_Witness ==
    /\ rs_factor.at > 0
    /\ rs_h_recovered > 0
    /\ rs_factor.at > rs_h_recovered
    /\ rs_factor.at - rs_h_recovered < rs_slow_start_duration
    /\ rs_factor.value > 100
    /\ rs_factor.value < 1000


\* ------------------------------------------------------------------------
\* The cancellable wait of the ReconnectStrategy (checked under SpecRW)
\* ------------------------------------------------------------------------

\* C25: every wait(stop_event, timeout) call returns; it returns true exactly
\* when the full delay elapsed with the stop event never set; with the event
\* set before the call it returns false without waiting, and with the event
\* set during the wait it returns false before the delay is over.
C25_WaitIsCancellable ==
    /\ rs_wait.status # "raised"
    /\ rs_wait.status = "returned" =>
           /\ rs_wait.ret = "True" <=>
                  /\ rs_wait.waited = rs_wait.delay
                  /\ ~rs_wait.set_before
                  /\ ~rs_wait.set_during
           /\ rs_wait.set_before => (rs_wait.ret = "False" /\ rs_wait.waited = 0)
           /\ rs_wait.set_during =>
                  (rs_wait.ret = "False" /\ rs_wait.waited < rs_wait.delay)


\* ------------------------------------------------------------------------
\* The CircuitBreaker under concurrent calls (checked under SpecCC)
\* ------------------------------------------------------------------------

\* The thread is between the statements of a method body.
InCritical(t) == cc_pc[t] \notin {"idle", "acquire"}

\* Every thread has made all its calls and returned from them.
AllDone == \A t \in CbThreads : cc_pc[t] = "idle" /\ cc_calls[t] = MaxCalls

\* C26: the method bodies of the CircuitBreaker never overlap; whenever no
\* thread is inside one, the failure count equals the number of
\* record_failure() calls completed since the last completed
\* record_success()/reset() (no update is lost) and the stored state fits the
\* count as after a sequential run: not CLOSED exactly when the count has
\* reached failure_threshold.  After N threads made M record_failure() calls
\* each and nothing else, failures == N*M and the state is OPEN iff
\* N*M >= failure_threshold.
C26_AtomicUnderThreads ==
    /\ Cardinality({t \in CbThreads : InCritical(t)}) <= 1
    /\ (\A t \in CbThreads : ~InCritical(t)) =>
           /\ cb_failures = cc_h_count
           /\ cb_state # CLOSED <=> cb_failures >= failure_threshold
           /\ ~cc_h_mixed =>
                  (cb_state = OPEN <=> cb_failures >= failure_threshold)
           /\ (AllDone /\ ~cc_h_mixed) =>
                  cb_failures = Cardinality(CbThreads) * MaxCalls

\* Both threads made all their calls, all of them record_failure, and the
\* breaker, whose threshold needed more than one of them, is OPEN.
C26_Witness ==
    /\ AllDone
    /\ ~cc_h_mixed
    /\ failure_threshold > 1
    /\ cb_failures = Cardinality(CbThreads) * MaxCalls
    /\ cb_state = OPEN


\* ------------------------------------------------------------------------
\* The transmit path of the MeshtasticInterface (checked under SpecMI)
\* ------------------------------------------------------------------------

\* C27: after a process_incoming call for which the breaker read OPEN, the
\* queue holds what it held before, the radio's send was not called, no drop
\* was counted, and the breaker's stored state (still OPEN), failure count
\* and opening time and the counters txb, tx_packets and tx_errors are what
\* they were before the call.
C27_OpenBreakerBlocksTx ==
    mi_last.read = OPEN =>
        /\ tq_queue = mi_last.queue
        /\ tq_dropped = mi_last.dropped
        /\ mi_radio = mi_last.radio
        /\ cb_state = OPEN
        /\ cb_state = mi_last.cb_state
        /\ cb_failures = mi_last.cb_failures
        /\ cb_opened_at = mi_last.cb_opened_at
        /\ mi_txb = mi_last.txb
        /\ mi_tx_packets = mi_last.tx_packets
        /\ mi_tx_errors = mi_last.tx_errors

\* A packet was offered to an online interface whose breaker, tripped by
\* failed sends, read OPEN.
C27_Witness ==
    /\ mi_online
    /\ mi_use_cb
    /\ mi_last.read = OPEN
    /\ mi_tx_errors >= DEFAULT_FAILURE_THRESHOLD
    /\ cb_failures >= DEFAULT_FAILURE_THRESHOLD


\* ------------------------------------------------------------------------
\* Stopping the TxQueue (checked under SpecTQ and SpecTQF)
\* ------------------------------------------------------------------------

\* stop() returns: its join returns, or there was no thread to join.
StopReturns ==
    \/ tq_ctl = "join" /\ tq_ctl' = "idle"
    \/ tq_ctl = "idle" /\ tq_ctl' = "idle" /\ ~tq_stop /\ tq_stop'

\* C28: when stop(timeout) returns the queue is empty (pending() == 0), so
\* nothing enqueued before the stop is left for a later start() to deliver.
C28_StopLeavesQueueEmpty == [][StopReturns => tq_queue' = <<>>]_vars

\* C29: at any time at most one drain thread is alive and at most one
\* send_fn call is in flight.
C29_OneDrainWorker ==
    /\ Cardinality({w \in Threads : IsAlive(w)}) <= 1
    /\ Cardinality({w \in Threads : tq_pc[w] = "in_send"}) <= 1

\* C30: a drain thread that is alive once stop() has set the signal
\* eventually exits, and the stop(timeout) call itself returns.
C30_StopIsObserved ==
    /\ \A w \in Threads : (tq_stop /\ IsAlive(w)) ~> ~IsAlive(w)
    /\ (tq_ctl = "join") ~> (tq_ctl = "idle")

\* ------------------------------------------------------------------------
\* Exceptions of the functions the drain thread calls (checked under SpecTQ)
\* ------------------------------------------------------------------------

\* C31: an exception of send_fn or of the inter-packet delay function is
\* caught inside the drain thread: no drain thread is ever ended by one.
C31_CallerExceptionsAreCaught == \A w \in Threads : tq_pc[w] # "crashed"

\* ------------------------------------------------------------------------
\* Counters of the health probe (checked under SpecHP)
\* ------------------------------------------------------------------------

\* C33: for every registered service, the check made last zeroed the
\* opposite consecutive counter (a pass consecutive_fails, a failure
\* consecutive_passes), at most one of the two consecutive counters is
\* nonzero, and total_checks = total_passes + total_fails.
C33_CountersAreConsistent ==
    \A s \in hp_checks :
        /\ hp_hist[s] # <<>> /\ hp_hist[s][Len(hp_hist[s])] => hp_cfails[s] = 0
        /\ hp_hist[s] # <<>> /\ ~hp_hist[s][Len(hp_hist[s])] => hp_cpasses[s] = 0
        /\ hp_cpasses[s] = 0 \/ hp_cfails[s] = 0
        /\ hp_total_checks[s] = hp_total_passes[s] + hp_total_fails[s]
        /\ hp_total_checks[s] = Len(hp_hist[s])

\* A service that passed a check right after failing one, with a failure
\* counted and a pass counted.
C33_Witness ==
    \E s \in hp_checks :
        /\ Len(hp_hist[s]) >= 2
        /\ hp_hist[s][Len(hp_hist[s])]
        /\ ~hp_hist[s][Len(hp_hist[s]) - 1]
        /\ hp_cpasses[s] > 0
        /\ hp_total_fails[s] > 0

\* ------------------------------------------------------------------------
\* The background loop of the health probe (checked under SpecPL and SpecPLF)
\* ------------------------------------------------------------------------

\* The check_fn calls in progress: those of the loop threads and that of the
\* application's check_now.
ChecksInProgress ==
    Cardinality({w \in PlThreads : pl_pc[w] = "in_check"})
    + (IF pl_app # "idle" THEN 1 ELSE 0)

\* C32: at most one check_fn call of a probe is in progress at any moment,
\* check_now calls of the application included.
C32_OneCheckAtATime == ChecksInProgress <= 1

\* The services thread w has checked in its current cycle.
CheckedInCycle(w) == {pl_h_cycle[w][i] : i \in 1..Len(pl_h_cycle[w])}

\* A service has had all the checks the model allows.
AtBound == \E x \in hp_checks : Len(hp_hist[x]) >= MaxLoopChecks

\* C34: a loop thread ends only when stop() has set the event - no check
\* result and no failure of an iteration ends it; an iteration that reaches
\* its wait without a stop has run a check for every service registered when
\* it began, one after another in order; and a running loop gets to every
\* registered service.
C34_LoopKeepsChecking ==
    /\ [][\A w \in PlThreads :
             /\ (pl_pc[w] # "done" /\ pl_pc'[w] = "done") => pl_stop_event
             /\ (pl_pc[w] = "for" /\ pl_pc'[w] = "wait" /\ ~pl_stop_event)
                    => pl_h_cycle[w] = pl_services[w]
             /\ (pl_pc[w] = "in_check" /\ pl_pc'[w] # "in_check")
                    => pl_pc'[w] = "for"]_vars
    /\ \A w \in PlThreads, s \in Services :
           (PlAlive(w) /\ s \in hp_checks)
               ~> (s \in CheckedInCycle(w) \/ pl_stop_event \/ AtBound)

\* A loop in its second cycle, both services checked in it, after an
\* iteration that failed and a check that failed or raised.
C34_Witness ==
    \E w \in PlThreads :
        /\ pl_pc[w] = "wait"
        /\ ~pl_stop_event
        /\ pl_loop_errors[w] > 0
        /\ Len(pl_services[w]) = 2
        /\ pl_h_cycle[w] = pl_services[w]
        /\ \E s \in hp_checks : Len(hp_hist[s]) = 2 /\ ~hp_hist[s][1]

\* C35: from the return of a start() to the next stop() a probe loop is
\* running: a loop thread is alive and the stop event is clear.
C35_StartLeavesLoopRunning ==
    pl_h_started => /\ ~pl_stop_event
                    /\ \E w \in PlThreads : PlAlive(w)

\* ------------------------------------------------------------------------
\* The HALF_OPEN probe and late failures of the CircuitBreaker (checked
\* under SpecCB)
\* ------------------------------------------------------------------------

\* C36: between two mutating calls at most one allow_request() returns True
\* on a HALF_OPEN breaker, whichever sender makes the calls.
C36_HalfOpenAllowsOneProbe == cb_probes <= 1

\* A record_failure() call is made.
FailureRecorded == cb_op' = "record_failure" /\ cb_failures' = cb_failures + 1

\* C37: record_failure() changes opened_at only when it takes the breaker
\* into OPEN, from CLOSED at the threshold or from HALF_OPEN; on a breaker
\* that is OPEN with its recovery timeout not elapsed it only increments the
\* failure count and leaves the state and opened_at as they were.
C37_LateFailureKeepsOpenedAt ==
    [][FailureRecorded =>
          /\ cb_opened_at' # cb_opened_at =>
                 /\ StateRead(cb_state, cb_opened_at, now) # OPEN
                 /\ cb_state' = OPEN
          /\ (cb_state = OPEN /\ now - cb_opened_at < recovery_timeout) =>
                 /\ cb_state' = OPEN
                 /\ cb_opened_at' = cb_opened_at]_vars

\* ------------------------------------------------------------------------
\* Sends while the interface's breaker is OPEN (checked under SpecMI)
\* ------------------------------------------------------------------------

\* C38: while the interface's breaker is OPEN and its recovery timeout has
\* not elapsed, no step hands a packet to the radio (sendData is not
\* called), by process_incoming or by the drain thread of the TxQueue.
C38_NoSendWhileOpen ==
    [][(mi_use_cb /\ StateRead(cb_state, cb_opened_at, now) = OPEN)
           => mi_radio' = mi_radio]_vars

\* ------------------------------------------------------------------------
\* Delivery by the TxQueue (checked under SpecTQD)
\* ------------------------------------------------------------------------

\* A drain thread is running: one is alive and stop() has not set the signal.
Running == ~tq_stop /\ \E w \in Threads : IsAlive(w)

\* The delay function raised and ended a drain thread.
DelayRaised == \E w \in Threads : tq_pc[w] = "crashed"

\* C39: every payload enqueue() accepted is handed to send_fn in the end,
\* for as long as a drain thread is running and the delay function has not
\* raised.
C39_AcceptedIsSent ==
    \A x \in 1..MaxItems :
        InQueue(x, tq_accepted) ~> (InQueue(x, tq_sent) \/ ~Running \/ DelayRaised)

\* A running queue with a delay function that has delivered all it accepted,
\* a payload whose send raised among them.
C39_Witness ==
    /\ Running
    /\ ~DelayRaised
    /\ tq_delay_fn
    /\ Len(tq_accepted) >= 2
    /\ tq_sent = tq_accepted
    /\ tq_raised # {}

\* ------------------------------------------------------------------------
\* Diagnostics of the BridgeHealthMonitor (checked under SpecBHS)
\* ------------------------------------------------------------------------

\* C40: after any connection events, for any service names, and any error
\* records, get_degraded_reason() returns None exactly when
\* get_bridge_status() is HEALTHY, and names at least one cause whenever the
\* status is DEGRADED or OFFLINE.
C40_ReasonAgreesWithStatus ==
    /\ DegradedReason.is_none <=> (BridgeStatus = HEALTHY_BRIDGE)
    /\ BridgeStatus \in {DEGRADED, OFFLINE} => Len(DegradedReason.reasons) >= 1

====
